---- MODULE Spec2Model ----
(***************************************************************************)
(* CurbYourCarbon: a model of the emissions pipeline's stateful parts.     *)
(*                                                                         *)
(*  - the Grid Intensity Provider and the Location Resolver                *)
(*    (services/electricity-maps.js, here src/unnamed/part_012), with the  *)
(*    dashboard's saveApiKey as the other writer of the token and cache;   *)
(*  - the Goal & Streak Tracker (calculators/goals.js, src/unnamed/        *)
(*    part_007, over storage/goal-storage.js, src/unnamed/part_000);       *)
(*  - the Daily Summary Accumulator (background/event-processor.js, the    *)
(*    tail of src/services/geocoding.js).                                  *)
(*                                                                         *)
(* JavaScript is single-threaded: a handler runs until its next await.     *)
(* Every action below is one such run: the completion of the awaited I/O   *)
(* followed by the synchronous code up to the next await.  Time is epoch   *)
(* milliseconds for the grid provider and hours for the weekly tracker.    *)
(***************************************************************************)
EXTENDS Integers, Sequences, FiniteSets, TLC

(***************************************************************************)
(* Bounds of the model.                                                    *)
(***************************************************************************)
NumCalls == 2
MaxTicks == 1
MaxSaves == 1
MaxCloses == 4
MaxDays == 3
NumHandlers == 2
MaxEvents == 3
NumSavers == 2
MaxUnlockDays == 2
MaxUnlockCalls == 3
MaxLoads == 3
NumSenders == 2
MaxSummaries == 2
MaxAggregated == 3
MaxIntensity == 500
MaxCarbonSteps == 120

(***************************************************************************)
(* Program constants.                                                      *)
(***************************************************************************)
GRID_INTENSITY_TTL_MS == 10 * 60 * 1000
LOCATION_FRESH_MS == 30 * 60 * 1000
BASELINE_GRID_INTENSITY == 475
GOAL_AVERAGE == 525
GOAL_ECO_WARRIOR == 350
GOAL_MODERATE == 700

\* One step of the clock: ten minutes.
TickMs == 10 * 60 * 1000
\* The clock when the model starts: late enough for an entry written at
\* TickMs to be as old as the location window, and one written at
\* StartMs - TickMs as old as the cache's time to live.
StartMs == 4 * TickMs
MaxNow == StartMs + MaxTicks * TickMs

Calls == 1..NumCalls

HoursPerDay == 24
\* The tracker's clock when the model starts: Saturday noon UTC of the
\* second week.
GoalStartHour == 7 * HoursPerDay + 5 * HoursPerDay + 12
\* Local time minus UTC: west of, at and east of Greenwich.
TzOffsets == {0 - 5, 0, 2}

Handlers == 1..NumHandlers

(***************************************************************************)
(* JavaScript values.  Every value is a record with a kind, so that values *)
(* of different shapes can be compared.                                    *)
(***************************************************************************)
NullV == [kind |-> "null"]
Undefined == [kind |-> "undefined"]
Pending == [kind |-> "pending"]
StringV(s) == [kind |-> "string", s |-> s]
GridEntry(i, t) == [kind |-> "grid", intensity |-> i, updatedAt |-> t]
LocEntry(lat, lon, t) == [kind |-> "loc", lat |-> lat, lon |-> lon, updatedAt |-> t]
Coords(lat, lon) == [kind |-> "coords", lat |-> lat, lon |-> lon]
NumV(v) == [t |-> "number", v |-> v]
NoNum == [t |-> "undefined", v |-> 0]
StrNum == [t |-> "string", v |-> 0]

\* JavaScript truthiness of a stored object-or-null value.
Truthy(v) == v.kind \notin {"null", "undefined"}

\* String.prototype.trim on the strings the model stores.
Trim(s) == IF s = "   " THEN "" ELSE s

VARIABLES
  now,               \* Date.now(), epoch milliseconds
  gridCache,         \* chrome.storage.local["gridIntensityCache"]
  tokenStore,        \* chrome.storage.local["ELECTRICITY_MAPS_TOKEN"]
  locationStore,     \* chrome.storage.local["lastKnownLocation"]
  gridFetchInFlight, \* the module-level handle: 0 (null) or the owner's id
  call,              \* per call of getRealtimeGridIntensity
  refresh,           \* per call: the refresh (the async IIFE) it started
  offscreenDoc,      \* whether the offscreen document exists
  geoPending,        \* GET_GEOLOCATION messages the document has yet to answer
  dash,              \* the dashboard's saveApiKey
  locWrites,         \* history: every value written to lastKnownLocation
  hour,              \* the tracker's clock: hours since a Monday 00:00 UTC
  tz,                \* local time minus UTC, in hours
  goalHistory,       \* chrome.storage.sync["goalHistory"]
  closer,            \* the running checkAndUpdateStreak, if any
  outcomes,          \* history: goalMet of every completed period close
  closedAt,          \* history: the hour the last completed close took its
                     \* period start at (0: no close yet)
  periodCheck,       \* the last isNewPeriod call and what it returned
  summaries,         \* IndexedDB "dailySummaries", by date key
  eventLog,          \* IndexedDB "events", in insertion order
  handler,           \* per running processTrackingEvent
  replies,           \* history: what handleTrackingEvent passed to
                     \* sendResponse, and whether EVENT_SAVED went with it
  calc,              \* the last call of a pure function: its input and result
  unlockStore,       \* chrome.storage.sync["achievementsUnlocked"]
  saver,             \* per running saveNewlyUnlocked
  today,             \* the calendar date, in days
  returned,          \* history: what each saveNewlyUnlocked call resolved
                     \* with, in the order the calls resolved
  state,             \* the universal tracker's state object
  loaded,            \* history: the performance entries given to
                     \* processResource, in order
  sending,           \* per running sendSummary
  acked              \* history: the summaries answered with ok true

gridVars == <<now, gridCache, tokenStore, locationStore, gridFetchInFlight,
              call, refresh, offscreenDoc, geoPending, dash, locWrites>>
goalVars == <<hour, tz, goalHistory, closer, outcomes, closedAt, periodCheck>>
summaryVars == <<summaries, eventLog, handler, replies>>
calcVars == <<calc>>
achVars == <<unlockStore, saver, today, returned>>
pageVars == <<state, loaded, sending, acked>>
vars == <<gridVars, goalVars, summaryVars, calcVars, achVars, pageVars>>


(***************************************************************************)
(* Grid Intensity Provider: pure helpers.                                  *)
(***************************************************************************)

\* A variant that falls back to a built-in demo token.
getElectricityMapsTokenOrDemo(raw) ==
  IF raw.kind = "string" /\ Trim(raw.s) # "" THEN StringV(Trim(raw.s))
  ELSE StringV("demo")

\* getElectricityMapsToken: a non-blank string, trimmed, or null.
getElectricityMapsToken(raw) ==
  IF raw.kind = "string" /\ Trim(raw.s) # "" THEN StringV(Trim(raw.s)) ELSE NullV

\* getCachedGridIntensity: the stored object, or null when absent or no object.
getCachedGridIntensity(raw) ==
  IF ~Truthy(raw) \/ raw.kind = "string" THEN NullV ELSE raw

\* The "use fresh cache" test of getRealtimeGridIntensity.
CacheIsFresh(cached, t) ==
  /\ Truthy(cached)
  /\ cached.kind = "grid"
  /\ t - cached.updatedAt < GRID_INTENSITY_TTL_MS

\* A variant that makes up a baseline entry when nothing is cached.
CachedOrBaseline(cached) ==
  IF Truthy(cached) THEN cached ELSE GridEntry(BASELINE_GRID_INTENSITY, 0)

\* `cached || null`
CachedOrNull(cached) == IF Truthy(cached) THEN cached ELSE NullV

\* getLastKnownLocation: the stored {lat, lon, updatedAt}, or null.
getLastKnownLocation(raw) ==
  IF ~Truthy(raw) \/ raw.kind # "loc" THEN NullV ELSE raw

\* A variant that takes a location of exactly 30 minutes for recent.
LocationIsFreshInclusive(cachedLoc, t) ==
  /\ Truthy(cachedLoc)
  /\ cachedLoc.updatedAt # 0
  /\ t - cachedLoc.updatedAt <= LOCATION_FRESH_MS

\* The "prefer recent cached location" test of getBestAvailableLocation:
\* cached?.updatedAt && Date.now() - cached.updatedAt < 30 * 60 * 1000
LocationIsFresh(cachedLoc, t) ==
  /\ Truthy(cachedLoc)
  /\ cachedLoc.updatedAt # 0
  /\ t - cachedLoc.updatedAt < LOCATION_FRESH_MS

\* The fallback of getBestAvailableLocation once the live lookup gave null.
StaleLocationOrNull(cachedLoc) ==
  IF Truthy(cachedLoc) THEN Coords(cachedLoc.lat, cachedLoc.lon) ELSE NullV

\* The first of carbonIntensity, carbonIntensityAvg, intensity that is a number.
ParseIntensity(body) ==
  IF body.carbonIntensity.t = "number" THEN body.carbonIntensity
  ELSE IF body.carbonIntensityAvg.t = "number" THEN body.carbonIntensityAvg
  ELSE IF body.intensity.t = "number" THEN body.intensity
  ELSE NoNum

\* What the carbon-intensity endpoint may answer.
Body(a, b, c) == [carbonIntensity |-> a, carbonIntensityAvg |-> b, intensity |-> c]
FetchResponses ==
  { [kind |-> "network", ok |-> FALSE, body |-> Body(NoNum, NoNum, NoNum)],
    [kind |-> "http", ok |-> FALSE, body |-> Body(NoNum, NoNum, NoNum)],
    [kind |-> "http", ok |-> TRUE, body |-> Body(StrNum, NoNum, NoNum)],
    [kind |-> "http", ok |-> TRUE, body |-> Body(NoNum, NumV(200), NoNum)] }

\* What the offscreen document may answer to GET_GEOLOCATION.
GeoMessages ==
  { [type |-> "GEOLOCATION_RESULT", finite |-> TRUE, lat |-> 48, lon |-> 2],
    [type |-> "GEOLOCATION_RESULT", finite |-> FALSE, lat |-> 0, lon |-> 0],
    [type |-> "GEOLOCATION_ERROR", finite |-> FALSE, lat |-> 0, lon |-> 0] }

IdleCall ==
  [pc |-> "idle", path |-> "none", cached |-> Pending, checkedAt |-> 0,
   tokRaw |-> Pending, awaiting |-> 0, result |-> Pending, tokSeen |-> FALSE]

NoRefresh ==
  [pc |-> "none", cachedLoc |-> Pending, locAt |-> 0, asked |-> FALSE,
   listening |-> FALSE, timer |-> FALSE, settled |-> FALSE, resolves |-> 0,
   live |-> Pending, liveTs |-> 0, location |-> Pending, fresh |-> Pending]

IdleDash == [pc |-> "idle", intensity |-> 0, ts |-> 0, runs |-> 0]

(***************************************************************************)
(* Initial states of the provider: any token, an empty or stale cache, and *)
(* no, a stale or a recent location.                                       *)
(***************************************************************************)
InitProvider(caches, tokens, locations) ==
  /\ now = StartMs
  /\ gridCache \in caches
  /\ tokenStore \in tokens
  /\ locationStore \in locations
  /\ gridFetchInFlight = 0
  /\ call = [c \in Calls |-> IdleCall]
  /\ refresh = [c \in Calls |-> NoRefresh]
  /\ offscreenDoc = FALSE
  /\ geoPending = 0
  /\ dash = IdleDash
  /\ locWrites = {}

InitGrid ==
  InitProvider({Undefined, GridEntry(300, StartMs - TickMs)},
               {Undefined, StringV("tok")},
               {Undefined, LocEntry(40, 74, TickMs), LocEntry(40, 74, StartMs)})

\* The provider when no call is ever made.
ProviderAtRest == InitProvider({Undefined}, {Undefined}, {Undefined})

(***************************************************************************)
(* getRealtimeGridIntensity                                                *)
(***************************************************************************)

\* The promise of refresh o settles: the finally block clears the handle, and
\* every call awaiting o resumes in the same microtask checkpoint.
SettleCalls(o, ok, value) ==
  [c \in Calls |->
     IF call[c].pc = "await" /\ call[c].awaiting = o
     THEN [call[c] EXCEPT !.pc = "done",
             !.result = IF ok THEN value ELSE CachedOrNull(call[c].cached)]
     ELSE call[c]]

\* A caller invokes getRealtimeGridIntensity(): the cache read is issued.
StartCall(c) ==
  /\ call[c].pc = "idle"
  /\ call' = [call EXCEPT ![c].pc = "readCache",
                ![c].tokSeen = Truthy(getElectricityMapsToken(tokenStore))]
  /\ UNCHANGED <<now, gridCache, tokenStore, locationStore, gridFetchInFlight,
                 refresh, offscreenDoc, geoPending, dash, locWrites>>
  /\ UNCHANGED <<goalVars, summaryVars, calcVars, achVars, pageVars>>

\* A variant that looks for a refresh in flight before it looks at the
\* cache's age.
CacheReadJoinFirst(c) ==
  /\ call[c].pc = "readCache"
  /\ LET cached == getCachedGridIntensity(gridCache)
         read == [call[c] EXCEPT !.cached = cached, !.checkedAt = now]
     IN call' = [call EXCEPT ![c] =
          IF gridFetchInFlight # 0
          THEN [read EXCEPT !.pc = "await", !.path = "join",
                            !.awaiting = gridFetchInFlight]
          ELSE IF CacheIsFresh(cached, now)
          THEN [read EXCEPT !.pc = "done", !.path = "fresh", !.result = cached]
          ELSE [read EXCEPT !.pc = "readToken"]]
  /\ UNCHANGED <<now, gridCache, tokenStore, locationStore, gridFetchInFlight,
                 refresh, offscreenDoc, geoPending, dash, locWrites>>
  /\ UNCHANGED <<goalVars, summaryVars, calcVars, achVars, pageVars>>

\* The cache read completes: fresh cache, else join the in-flight refresh,
\* else go on to read the token.
CacheRead(c) ==
  /\ call[c].pc = "readCache"
  /\ LET cached == getCachedGridIntensity(gridCache)
         read == [call[c] EXCEPT !.cached = cached, !.checkedAt = now]
     IN call' = [call EXCEPT ![c] =
          IF CacheIsFresh(cached, now)
          THEN [read EXCEPT !.pc = "done", !.path = "fresh", !.result = cached]
          ELSE IF gridFetchInFlight # 0
          THEN [read EXCEPT !.pc = "await", !.path = "join",
                            !.awaiting = gridFetchInFlight]
          ELSE [read EXCEPT !.pc = "readToken"]]
  /\ UNCHANGED <<now, gridCache, tokenStore, locationStore, gridFetchInFlight,
                 refresh, offscreenDoc, geoPending, dash, locWrites>>
  /\ UNCHANGED <<goalVars, summaryVars, calcVars, achVars, pageVars>>

\* The token read completes: without a token return the stale cache or null;
\* with one start the refresh, store its promise in the handle and await it.
TokenRead(c) ==
  /\ call[c].pc = "readToken"
  /\ LET token == getElectricityMapsToken(tokenStore) IN
       IF ~Truthy(token)
       THEN /\ call' = [call EXCEPT ![c].pc = "done", ![c].path = "notoken",
                          ![c].tokRaw = tokenStore,
                          ![c].result = CachedOrNull(call[c].cached)]
            /\ UNCHANGED <<refresh, gridFetchInFlight>>
       ELSE /\ call' = [call EXCEPT ![c].pc = "await", ![c].path = "own",
                          ![c].tokRaw = tokenStore, ![c].awaiting = c]
            /\ refresh' = [refresh EXCEPT ![c] = [NoRefresh EXCEPT !.pc = "locRead"]]
            /\ gridFetchInFlight' = c
  /\ UNCHANGED <<now, gridCache, tokenStore, locationStore, offscreenDoc,
                 geoPending, dash, locWrites>>
  /\ UNCHANGED <<goalVars, summaryVars, calcVars, achVars, pageVars>>


(***************************************************************************)
(* The refresh: getBestAvailableLocation, then                             *)
(* fetchGridIntensityFromElectricityMaps, then setCachedGridIntensity.     *)
(***************************************************************************)

\* chrome.storage.local.set({lastKnownLocation: {lat, lon, updatedAt}})
setLastKnownLocation(lat, lon, t) ==
  /\ locationStore' = LocEntry(lat, lon, t)
  /\ locWrites' = locWrites \cup {LocEntry(lat, lon, t)}

\* getBestAvailableLocation returns `location`: the fetch is issued.
IssueFetch(r, location) ==
  [r EXCEPT !.pc = "fetch", !.location = location]

\* The promise of requestGeolocationFromOffscreen resolves with `live`, and
\* getBestAvailableLocation goes on: a live position is saved (Date.now() is
\* read when the write is issued), without one the cached location is used.
AfterLive(r, live, t) ==
  IF Truthy(live)
  THEN [r EXCEPT !.pc = "locSave", !.live = live, !.liveTs = t,
                 !.resolves = @ + 1]
  ELSE [IssueFetch(r, StaleLocationOrNull(r.cachedLoc))
          EXCEPT !.live = NullV, !.resolves = @ + 1]

\* A refresh that throws without a finally block: the handle stays.
RejectKeepsHandle(o) ==
  /\ refresh' = [refresh EXCEPT ![o].pc = "rejected"]
  /\ call' = SettleCalls(o, FALSE, NullV)
  /\ UNCHANGED gridFetchInFlight

\* The refresh throws: finally clears the handle, the awaiting calls fall
\* back to their own cached value.
Reject(o) ==
  /\ refresh' = [refresh EXCEPT ![o].pc = "rejected"]
  /\ call' = SettleCalls(o, FALSE, NullV)
  /\ gridFetchInFlight' = 0

\* The read of lastKnownLocation completes.
LocRead(o) ==
  /\ refresh[o].pc = "locRead"
  /\ LET cachedLoc == getLastKnownLocation(locationStore)
         r == [refresh[o] EXCEPT !.cachedLoc = cachedLoc, !.locAt = now]
     IN refresh' = [refresh EXCEPT ![o] =
          IF LocationIsFresh(cachedLoc, now)
          THEN IssueFetch(r, Coords(cachedLoc.lat, cachedLoc.lon))
          ELSE [r EXCEPT !.pc = "offscreen"]]
  /\ UNCHANGED <<now, gridCache, tokenStore, locationStore, gridFetchInFlight,
                 call, offscreenDoc, geoPending, dash, locWrites>>
  /\ UNCHANGED <<goalVars, summaryVars, calcVars, achVars, pageVars>>

\* ensureOffscreenDocument returns (whether or not the document could be
\* created: both errors are swallowed); the timer is armed, the listener
\* added and GET_GEOLOCATION sent.  Only an existing document receives it.
EnsureOffscreen(o) ==
  /\ refresh[o].pc = "offscreen"
  /\ \E created \in BOOLEAN :
       /\ offscreenDoc' = (offscreenDoc \/ created)
       /\ geoPending' = IF offscreenDoc' THEN geoPending + 1 ELSE geoPending
  /\ refresh' = [refresh EXCEPT ![o].pc = "geoWait", ![o].asked = TRUE,
                   ![o].listening = TRUE, ![o].timer = TRUE]
  /\ UNCHANGED <<now, gridCache, tokenStore, locationStore, gridFetchInFlight,
                 call, dash, locWrites>>
  /\ UNCHANGED <<goalVars, summaryVars, calcVars, achVars, pageVars>>

\* The listener of one request handles a GEOLOCATION_RESULT or _ERROR.
GeoHandler(r, msg, t) ==
  LET off == [r EXCEPT !.timer = FALSE, !.listening = FALSE] IN
    IF r.settled THEN off
    ELSE AfterLive([off EXCEPT !.settled = TRUE],
                   IF msg.type = "GEOLOCATION_RESULT" /\ msg.finite
                   THEN Coords(msg.lat, msg.lon) ELSE NullV, t)

\* The offscreen document answers one GET_GEOLOCATION: chrome.runtime
\* delivers the message to every listener registered at that moment.
GeoRespond ==
  /\ geoPending > 0
  /\ \E msg \in GeoMessages :
       refresh' = [o \in Calls |->
          IF refresh[o].listening THEN GeoHandler(refresh[o], msg, now)
          ELSE refresh[o]]
  /\ geoPending' = geoPending - 1
  /\ UNCHANGED <<now, gridCache, tokenStore, locationStore, gridFetchInFlight,
                 call, offscreenDoc, dash, locWrites>>
  /\ UNCHANGED <<goalVars, summaryVars, calcVars, achVars, pageVars>>

\* A variant whose timer is cancelled without resolving the request.
GeoTimeoutLost(o) ==
  /\ refresh[o].timer
  /\ refresh' = [refresh EXCEPT ![o].timer = FALSE]
  /\ UNCHANGED <<now, gridCache, tokenStore, locationStore, gridFetchInFlight,
                 call, offscreenDoc, geoPending, dash, locWrites>>
  /\ UNCHANGED <<goalVars, summaryVars, calcVars, achVars, pageVars>>

\* The 8-second timer of one request fires.
GeoTimeout(o) ==
  /\ refresh[o].timer
  /\ refresh' = [refresh EXCEPT ![o] =
       LET off == [@ EXCEPT !.timer = FALSE] IN
         IF @.settled THEN off
         ELSE AfterLive([off EXCEPT !.settled = TRUE, !.listening = FALSE],
                        NullV, now)]
  /\ UNCHANGED <<now, gridCache, tokenStore, locationStore, gridFetchInFlight,
                 call, offscreenDoc, geoPending, dash, locWrites>>
  /\ UNCHANGED <<goalVars, summaryVars, calcVars, achVars, pageVars>>

\* The write of the live position completes; getBestAvailableLocation
\* returns it.
LocSave(o) ==
  /\ refresh[o].pc = "locSave"
  /\ setLastKnownLocation(refresh[o].live.lat, refresh[o].live.lon,
                          refresh[o].liveTs)
  /\ refresh' = [refresh EXCEPT ![o] = IssueFetch(@, @.live)]
  /\ UNCHANGED <<now, gridCache, tokenStore, gridFetchInFlight, call,
                 offscreenDoc, geoPending, dash>>
  /\ UNCHANGED <<goalVars, summaryVars, calcVars, achVars, pageVars>>

\* The carbon-intensity request completes: on an error, a non-2xx status or a
\* body without a numeric intensity the refresh throws; otherwise the write
\* of the fresh entry is issued.
FetchRespond(o) ==
  /\ refresh[o].pc = "fetch"
  /\ \E resp \in FetchResponses :
       LET intensity == ParseIntensity(resp.body) IN
         IF resp.kind = "network" \/ ~resp.ok \/ intensity.t # "number"
         THEN Reject(o)
         ELSE /\ refresh' = [refresh EXCEPT ![o].pc = "cacheWrite",
                               ![o].fresh = GridEntry(intensity.v, now)]
              /\ UNCHANGED <<call, gridFetchInFlight>>
  /\ UNCHANGED <<now, gridCache, tokenStore, locationStore, offscreenDoc,
                 geoPending, dash, locWrites>>
  /\ UNCHANGED <<goalVars, summaryVars, calcVars, achVars, pageVars>>

\* setCachedGridIntensity completes; the refresh returns the fresh entry.
CacheWrite(o) ==
  /\ refresh[o].pc = "cacheWrite"
  /\ gridCache' = refresh[o].fresh
  /\ refresh' = [refresh EXCEPT ![o].pc = "fulfilled"]
  /\ call' = SettleCalls(o, TRUE, refresh[o].fresh)
  /\ gridFetchInFlight' = 0
  /\ UNCHANGED <<now, tokenStore, locationStore, offscreenDoc, geoPending,
                 dash, locWrites>>
  /\ UNCHANGED <<goalVars, summaryVars, calcVars, achVars, pageVars>>

\* Ten minutes pass.
Tick ==
  /\ now < MaxNow
  /\ now' = now + TickMs
  /\ UNCHANGED <<gridCache, tokenStore, locationStore, gridFetchInFlight, call,
                 refresh, offscreenDoc, geoPending, dash, locWrites>>
  /\ UNCHANGED <<goalVars, summaryVars, calcVars, achVars, pageVars>>


(***************************************************************************)
(* The dashboard's saveApiKey: the other writer of the token and the cache.*)
(***************************************************************************)
\* What saveApiKey does once the cache is written or removed (it redraws,
\* and asks the background for the location) touches neither the token nor
\* the cache and is left out.

\* The user saves an empty key: the removal of the token is issued.
DashRemoveKey ==
  /\ dash.pc = "idle" /\ dash.runs < MaxSaves
  /\ dash' = [dash EXCEPT !.pc = "rmToken", !.runs = @ + 1]
  /\ UNCHANGED <<now, gridCache, tokenStore, locationStore, gridFetchInFlight,
                 call, refresh, offscreenDoc, geoPending, locWrites>>
  /\ UNCHANGED <<goalVars, summaryVars, calcVars, achVars, pageVars>>

\* The token is removed; the removal of the cache is issued.
DashRmToken ==
  /\ dash.pc = "rmToken"
  /\ tokenStore' = Undefined
  /\ dash' = [dash EXCEPT !.pc = "rmCache"]
  /\ UNCHANGED <<now, gridCache, locationStore, gridFetchInFlight, call,
                 refresh, offscreenDoc, geoPending, locWrites>>
  /\ UNCHANGED <<goalVars, summaryVars, calcVars, achVars, pageVars>>

\* The cache is removed (after a removed key, or after a key that failed
\* its test).
DashRmCache ==
  /\ dash.pc \in {"rmCache", "rmInvalid"}
  /\ gridCache' = Undefined
  /\ dash' = [dash EXCEPT !.pc = "idle"]
  /\ UNCHANGED <<now, tokenStore, locationStore, gridFetchInFlight, call,
                 refresh, offscreenDoc, geoPending, locWrites>>
  /\ UNCHANGED <<goalVars, summaryVars, calcVars, achVars, pageVars>>

\* The user saves a key: testApiKey is awaited.
DashSaveKey ==
  /\ dash.pc = "idle" /\ dash.runs < MaxSaves
  /\ dash' = [dash EXCEPT !.pc = "testing", !.runs = @ + 1]
  /\ UNCHANGED <<now, gridCache, tokenStore, locationStore, gridFetchInFlight,
                 call, refresh, offscreenDoc, geoPending, locWrites>>
  /\ UNCHANGED <<goalVars, summaryVars, calcVars, achVars, pageVars>>

\* testApiKey returns: a valid key is written, an invalid one clears the cache.
DashTestDone ==
  /\ dash.pc = "testing"
  /\ \E valid \in BOOLEAN :
       dash' = IF valid THEN [dash EXCEPT !.pc = "setToken", !.intensity = 250]
               ELSE [dash EXCEPT !.pc = "rmInvalid"]
  /\ UNCHANGED <<now, gridCache, tokenStore, locationStore, gridFetchInFlight,
                 call, refresh, offscreenDoc, geoPending, locWrites>>
  /\ UNCHANGED <<goalVars, summaryVars, calcVars, achVars, pageVars>>

\* The token is written; the cache write is issued with Date.now().
DashSetToken ==
  /\ dash.pc = "setToken"
  /\ tokenStore' = StringV("tok")
  /\ dash' = [dash EXCEPT !.pc = "setCache", !.ts = now]
  /\ call' = [c \in Calls |->
                IF call[c].pc \in {"readCache", "readToken", "await"}
                THEN [call[c] EXCEPT !.tokSeen = TRUE] ELSE call[c]]
  /\ UNCHANGED <<now, gridCache, locationStore, gridFetchInFlight, refresh,
                 offscreenDoc, geoPending, locWrites>>
  /\ UNCHANGED <<goalVars, summaryVars, calcVars, achVars, pageVars>>

\* The cache entry {intensity, zone, updatedAt} is written.
DashSetCache ==
  /\ dash.pc = "setCache"
  /\ gridCache' = GridEntry(dash.intensity, dash.ts)
  /\ dash' = [dash EXCEPT !.pc = "idle"]
  /\ UNCHANGED <<now, tokenStore, locationStore, gridFetchInFlight, call,
                 refresh, offscreenDoc, geoPending, locWrites>>
  /\ UNCHANGED <<goalVars, summaryVars, calcVars, achVars, pageVars>>

(***************************************************************************)
(* The key-value store being unavailable: an awaited chrome.storage call   *)
(* rejects instead of completing.                                          *)
(***************************************************************************)

\* getCachedGridIntensity rejects: nothing catches it.
CacheReadFails(c) ==
  /\ call[c].pc = "readCache"
  /\ call' = [call EXCEPT ![c].pc = "threw"]
  /\ UNCHANGED <<now, gridCache, tokenStore, locationStore, gridFetchInFlight,
                 refresh, offscreenDoc, geoPending, dash, locWrites>>
  /\ UNCHANGED <<goalVars, summaryVars, calcVars, achVars, pageVars>>

\* getElectricityMapsToken rejects: nothing catches it.
TokenReadFails(c) ==
  /\ call[c].pc = "readToken"
  /\ call' = [call EXCEPT ![c].pc = "threw"]
  /\ UNCHANGED <<now, gridCache, tokenStore, locationStore, gridFetchInFlight,
                 refresh, offscreenDoc, geoPending, dash, locWrites>>
  /\ UNCHANGED <<goalVars, summaryVars, calcVars, achVars, pageVars>>

\* A storage call inside the refresh rejects: the refresh throws.
RefreshStoreFails(o) ==
  /\ refresh[o].pc \in {"locRead", "locSave", "cacheWrite"}
  /\ Reject(o)
  /\ UNCHANGED <<now, gridCache, tokenStore, locationStore, offscreenDoc,
                 geoPending, dash, locWrites>>
  /\ UNCHANGED <<goalVars, summaryVars, calcVars, achVars, pageVars>>


(***************************************************************************)
(* Goal & Streak Tracker.  Dates: an instant is a number of hours since    *)
(* the model's epoch, a Monday 00:00 UTC; a calendar date is a number of   *)
(* days since that Monday.  The local clock runs tz hours ahead of UTC.    *)
(***************************************************************************)

\* new Date("YYYY-MM-DD"): a date-only string is UTC midnight of that date.
DateString(day) == [kind |-> "date", day |-> day]
ParseDate(d) == d.day * HoursPerDay

\* toISOString().split('T')[0]: the UTC calendar date of an instant.
ISODate(instant) == DateString(instant \div HoursPerDay)

\* Date.prototype.getDay on the local clock: 0 is Sunday, 1 is Monday.
GetDay(instant, offset) == (((instant + offset) \div HoursPerDay) + 1) % 7

\* getPeriodStart: the instant of the local Monday 00:00 of the current week.
getPeriodStart(instant, offset) ==
  LET day == GetDay(instant, offset)
      diff == IF day = 0 THEN -6 ELSE 1 - day
      date == ((instant + offset) \div HoursPerDay) + diff
  IN date * HoursPerDay - offset

\* isNewPeriod
isNewPeriod(history, instant, offset) ==
  IF ~Truthy(history.lastPeriodStart) THEN TRUE
  ELSE getPeriodStart(instant, offset) > ParseDate(history.lastPeriodStart)

DefaultHistory ==
  [kind |-> "history", lastPeriodStart |-> NullV, lastPeriodMet |-> FALSE,
   currentStreak |-> 0, bestStreak |-> 0, totalAchieved |-> 0,
   halfGoalAchieved |-> FALSE]

\* getGoalHistory: the stored history, the default one when there is none or
\* when the read fails.
getGoalHistory(raw, failed) ==
  IF failed \/ ~Truthy(raw) THEN DefaultHistory ELSE raw

Max(a, b) == IF a >= b THEN a ELSE b

\* A variant that keeps the streak when the goal is missed.
UpdateStreakNoReset(history, goalMet) ==
  IF goalMet
  THEN LET streak == IF history.lastPeriodMet THEN history.currentStreak + 1
                     ELSE 1
       IN [history EXCEPT !.currentStreak = streak,
                          !.totalAchieved = @ + 1,
                          !.bestStreak = Max(@, streak),
                          !.lastPeriodMet = TRUE]
  ELSE [history EXCEPT !.lastPeriodMet = FALSE]

\* A variant that takes the current streak as the best one.
UpdateStreakBestIsCurrent(history, goalMet) ==
  IF goalMet
  THEN LET streak == IF history.lastPeriodMet THEN history.currentStreak + 1
                     ELSE 1
       IN [history EXCEPT !.currentStreak = streak,
                          !.totalAchieved = @ + 1,
                          !.bestStreak = streak,
                          !.lastPeriodMet = TRUE]
  ELSE [history EXCEPT !.currentStreak = 0, !.lastPeriodMet = FALSE]

\* The counters of checkAndUpdateStreak.
UpdateStreak(history, goalMet) ==
  IF goalMet
  THEN LET streak == IF history.lastPeriodMet THEN history.currentStreak + 1
                     ELSE 1
       IN [history EXCEPT !.currentStreak = streak,
                          !.totalAchieved = @ + 1,
                          !.bestStreak = Max(@, streak),
                          !.lastPeriodMet = TRUE]
  ELSE [history EXCEPT !.currentStreak = 0, !.lastPeriodMet = FALSE]

\* A variant whose halfGoalAchieved tells of the period just closed only.
checkAndUpdateStreakLastPeriod(history, periodCarbon, goal, instant, offset) ==
  LET goalMet == periodCarbon <= goal.amount
      counted == UpdateStreak(history, goalMet)
  IN [counted EXCEPT
        !.lastPeriodStart = ISODate(getPeriodStart(instant, offset)),
        !.halfGoalAchieved = goalMet /\ 2 * periodCarbon <= goal.amount]

\* checkAndUpdateStreak from the history it read to the history it writes.
\* periodCarbon <= goal.amount * 0.5 is taken on doubled integers.
checkAndUpdateStreak(history, periodCarbon, goal, instant, offset) ==
  LET goalMet == periodCarbon <= goal.amount
      counted == UpdateStreak(history, goalMet)
  IN [counted EXCEPT
        !.lastPeriodStart = ISODate(getPeriodStart(instant, offset)),
        !.halfGoalAchieved =
           IF goalMet /\ 2 * periodCarbon <= goal.amount THEN TRUE ELSE @]

\* The fixed weekly goal (GOAL_PRESETS.average) and the weekly totals closed.
Goal == [amount |-> GOAL_AVERAGE, period |-> "week"]
PeriodCarbons == {200, GOAL_AVERAGE, 600}

IdleCloser == [pc |-> "idle", periodCarbon |-> 0, history |-> NullV, at |-> 0]
NoCheck == [done |-> FALSE, at |-> 0, after |-> 0, result |-> FALSE]

InitTracker(offsets) ==
  /\ hour = GoalStartHour
  /\ tz \in offsets
  /\ goalHistory = Undefined
  /\ closer = IdleCloser
  /\ outcomes = <<>>
  /\ closedAt = 0
  /\ periodCheck = NoCheck

InitGoal == InitTracker(TzOffsets)

\* The tracker when no period is ever closed.
TrackerAtRest == InitTracker({0})

\* checkAndUpdateStreak(periodCarbon, goal) is called: the read is issued.
CloseStart ==
  /\ closer.pc = "idle"
  /\ Len(outcomes) < MaxCloses
  /\ \E periodCarbon \in PeriodCarbons :
       closer' = [IdleCloser EXCEPT !.pc = "read", !.periodCarbon = periodCarbon]
  /\ UNCHANGED <<hour, tz, goalHistory, outcomes, closedAt, periodCheck>>
  /\ UNCHANGED <<gridVars, summaryVars, calcVars, achVars, pageVars>>

\* getGoalHistory returns; the counters and lastPeriodStart are updated and
\* the write is issued.
CloseRead ==
  /\ closer.pc = "read"
  /\ closer' = [closer EXCEPT !.pc = "write", !.at = hour,
        !.history = checkAndUpdateStreak(getGoalHistory(goalHistory, FALSE),
                                         closer.periodCarbon, Goal, hour, tz)]
  /\ UNCHANGED <<hour, tz, goalHistory, outcomes, closedAt, periodCheck>>
  /\ UNCHANGED <<gridVars, summaryVars, calcVars, achVars, pageVars>>

\* updateGoalHistory completes.
CloseWrite ==
  /\ closer.pc = "write"
  /\ goalHistory' = closer.history
  /\ outcomes' = Append(outcomes, closer.periodCarbon <= Goal.amount)
  /\ closedAt' = closer.at
  /\ closer' = IdleCloser
  /\ UNCHANGED <<hour, tz, periodCheck>>
  /\ UNCHANGED <<gridVars, summaryVars, calcVars, achVars, pageVars>>

\* isNewPeriod is asked about the stored history.
CheckPeriod ==
  /\ periodCheck' =
       [done |-> TRUE, at |-> hour, after |-> closedAt,
        result |-> isNewPeriod(getGoalHistory(goalHistory, FALSE), hour, tz)]
  /\ UNCHANGED <<hour, tz, goalHistory, closer, outcomes, closedAt>>
  /\ UNCHANGED <<gridVars, summaryVars, calcVars, achVars, pageVars>>

\* A day passes.
NextDay ==
  /\ hour < GoalStartHour + MaxDays * HoursPerDay
  /\ hour' = hour + HoursPerDay
  /\ UNCHANGED <<tz, goalHistory, closer, outcomes, closedAt, periodCheck>>
  /\ UNCHANGED <<gridVars, summaryVars, calcVars, achVars, pageVars>>

(***************************************************************************)
(* Daily Summary Accumulator.  Carbon is counted in hundredths of a gram.  *)
(* byCategory and byPlatform are plain JavaScript objects: a key the       *)
(* object does not own is looked up on Object.prototype.                   *)
(***************************************************************************)

Absent == [t |-> "absent", v |-> 0]
FunctionV == [t |-> "function", v |-> 0]
NotANumber == [t |-> "NaN", v |-> 0]
\* null where a number is expected.
NullNum == [t |-> "null", v |-> 0]

CategoryKeys == {"media", "shopping", "browsing", "video"}
PlatformKeys == {"youtube.com", "unknown", "constructor"}
\* The members of Object.prototype among the keys used.
ObjectPrototypeKeys == {"constructor"}

\* obj[key]
GetProp(obj, key) ==
  IF obj[key].t # "absent" THEN obj[key]
  ELSE IF key \in ObjectPrototypeKeys THEN FunctionV
  ELSE NoNum

\* !value
Falsy(value) ==
  \/ value.t \in {"undefined", "NaN"}
  \/ value.t = "number" /\ value.v = 0

\* value + grams: a non-number operand makes it a string concatenation.
Plus(value, grams) ==
  IF value.t = "number" THEN NumV(value.v + grams)
  ELSE IF value.t \in {"undefined", "NaN"} THEN NotANumber
  ELSE StrNum

\* if (!obj[key]) obj[key] = 0;  obj[key] += grams;
Accumulate(obj, key, grams) ==
  LET cleared == IF Falsy(GetProp(obj, key)) THEN [obj EXCEPT ![key] = NumV(0)]
                 ELSE obj
  IN [cleared EXCEPT ![key] = Plus(GetProp(cleared, key), grams)]

\* getDateKey: the calendar date of a timestamp given in hours.
getDateKey(timestamp) == timestamp \div HoursPerDay

NoSummary == [kind |-> "none"]

\* The summary updateDailySummary starts from when the day has none.
EmptySummary(dateKey) ==
  [kind |-> "summary", date |-> dateKey, totalCarbon |-> 0,
   byCategory |-> [k \in CategoryKeys |->
                     IF k \in {"media", "shopping", "browsing"} THEN NumV(0)
                     ELSE Absent],
   byPlatform |-> [k \in PlatformKeys |-> Absent]]

\* An update that adds the event's carbon to the total twice.
updateDailySummaryTwice(stored, eventRecord) ==
  LET existing == IF stored.kind = "summary" THEN stored
                  ELSE EmptySummary(getDateKey(eventRecord.timestamp))
      category == IF eventRecord.type = "" THEN "browsing" ELSE eventRecord.type
  IN [existing EXCEPT
        !.totalCarbon = @ + eventRecord.carbonGrams + eventRecord.carbonGrams,
        !.byCategory = Accumulate(@, category, eventRecord.carbonGrams),
        !.byPlatform = Accumulate(@, eventRecord.platform, eventRecord.carbonGrams)]

\* An update that starts from an empty summary whatever is stored.
updateDailySummaryFromEmpty(stored, eventRecord) ==
  LET existing == EmptySummary(getDateKey(eventRecord.timestamp))
      category == IF eventRecord.type = "" THEN "browsing" ELSE eventRecord.type
  IN [existing EXCEPT
        !.totalCarbon = @ + eventRecord.carbonGrams,
        !.byCategory = Accumulate(@, category, eventRecord.carbonGrams),
        !.byPlatform = Accumulate(@, eventRecord.platform, eventRecord.carbonGrams)]

\* updateDailySummary from the summary it read to the summary it saves.
updateDailySummary(stored, eventRecord) ==
  LET existing == IF stored.kind = "summary" THEN stored
                  ELSE EmptySummary(getDateKey(eventRecord.timestamp))
      category == IF eventRecord.type = "" THEN "browsing" ELSE eventRecord.type
  IN [existing EXCEPT
        !.totalCarbon = @ + eventRecord.carbonGrams,
        !.byCategory = Accumulate(@, category, eventRecord.carbonGrams),
        !.byPlatform = Accumulate(@, eventRecord.platform, eventRecord.carbonGrams)]

\* What a content script may send: type and platform may be missing ("").
Payloads ==
  { [type |-> "media", platform |-> "youtube.com", timestamp |-> 30],
    [type |-> "", platform |-> "", timestamp |-> 30],
    [type |-> "shopping", platform |-> "constructor", timestamp |-> 30],
    [type |-> "video", platform |-> "youtube.com", timestamp |-> 50] }

\* What calculateEventCarbon may return.
CarbonGrams == {0, 125}

DateKeys == {getDateKey(p.timestamp) : p \in Payloads}

\* The event record processTrackingEvent builds; gridData is what
\* getRealtimeGridIntensity gave calculateEventCarbon, and gridIntensity the
\* grid context copied into the record's data.
EventRecord(payload, carbonGrams, gridData) ==
  [timestamp |-> payload.timestamp,
   type |-> IF payload.type = "" THEN "browsing" ELSE payload.type,
   platform |-> IF payload.platform = "" THEN "unknown" ELSE payload.platform,
   gridIntensity |-> IF gridData.kind = "grid" THEN NumV(gridData.intensity)
                     ELSE NullNum,
   carbonGrams |-> carbonGrams]

IdleHandler == [pc |-> "idle", msg |-> 0, record |-> NullV, existing |-> NoSummary]

\* The TRACK_EVENT messages received so far, answered or being processed.
Received == Len(replies) + Cardinality({g \in Handlers : handler[g].pc # "idle"})

\* handleTrackingEvent's two ways out: EVENT_SAVED sent and
\* sendResponse(result) with ok true, or sendResponse({ok: false, error}).
Success(h) == [msg |-> handler[h].msg, ok |-> TRUE, eventSaved |-> TRUE,
               record |-> handler[h].record]
Failure(m, record) == [msg |-> m, ok |-> FALSE, eventSaved |-> FALSE,
                       record |-> record]

InitSummary ==
  /\ summaries = [d \in DateKeys |-> NoSummary]
  /\ eventLog = <<>>
  /\ handler = [h \in Handlers |-> IdleHandler]
  /\ replies = <<>>

\* A TRACK_EVENT arrives and calculateEventCarbon returns, the provider
\* having given it the cache entry, or null without one: the event record is
\* built and saveEvent issued.
ProcessEvent(h) ==
  /\ handler[h].pc = "idle"
  /\ Received < MaxEvents
  /\ \E payload \in Payloads, carbonGrams \in CarbonGrams :
       handler' = [handler EXCEPT ![h] =
          [IdleHandler EXCEPT !.pc = "saveEvent",
                              !.msg = Received + 1,
                              !.record = EventRecord(payload, carbonGrams, gridCache)]]
  /\ UNCHANGED <<summaries, eventLog, replies>>
  /\ UNCHANGED <<gridVars, goalVars, calcVars, achVars, pageVars>>

\* A saveEvent that puts the record under the key of the first one.
EventSavedOverFirst(h) ==
  /\ handler[h].pc = "saveEvent"
  /\ eventLog' = IF eventLog = <<>> THEN <<handler[h].record>>
                 ELSE [eventLog EXCEPT ![1] = handler[h].record]
  /\ handler' = [handler EXCEPT ![h].pc = "readSummary"]
  /\ UNCHANGED <<summaries, replies>>
  /\ UNCHANGED <<gridVars, goalVars, calcVars, achVars, pageVars>>

\* A saveEvent whose completion already sends EVENT_SAVED and the response.
EventSavedAnnounced(h) ==
  /\ handler[h].pc = "saveEvent"
  /\ eventLog' = Append(eventLog, handler[h].record)
  /\ handler' = [handler EXCEPT ![h].pc = "readSummary"]
  /\ replies' = Append(replies, Success(h))
  /\ UNCHANGED summaries
  /\ UNCHANGED <<gridVars, goalVars, calcVars, achVars, pageVars>>

\* saveEvent completes; updateDailySummary issues getDailySummary.
EventSaved(h) ==
  /\ handler[h].pc = "saveEvent"
  /\ eventLog' = Append(eventLog, handler[h].record)
  /\ handler' = [handler EXCEPT ![h].pc = "readSummary"]
  /\ UNCHANGED <<summaries, replies>>
  /\ UNCHANGED <<gridVars, goalVars, calcVars, achVars, pageVars>>

\* getDailySummary returns; the summary is updated in memory and
\* saveDailySummary issued.
SummaryRead(h) ==
  /\ handler[h].pc = "readSummary"
  /\ handler' = [handler EXCEPT ![h].pc = "saveSummary",
        ![h].existing =
           updateDailySummary(summaries[getDateKey(handler[h].record.timestamp)],
                              handler[h].record)]
  /\ UNCHANGED <<summaries, eventLog, replies>>
  /\ UNCHANGED <<gridVars, goalVars, calcVars, achVars, pageVars>>

\* A handleTrackingEvent that responds in its try block and again in its
\* catch.
SummarySavedAnsweredTwice(h) ==
  /\ handler[h].pc = "saveSummary"
  /\ summaries' = [summaries EXCEPT ![handler[h].existing.date] = handler[h].existing]
  /\ replies' = replies \o <<Success(h), Failure(handler[h].msg, handler[h].record)>>
  /\ handler' = [handler EXCEPT ![h] = IdleHandler]
  /\ UNCHANGED eventLog
  /\ UNCHANGED <<gridVars, goalVars, calcVars, achVars, pageVars>>

\* saveDailySummary completes: the record with that date is replaced,
\* processTrackingEvent returns and handleTrackingEvent sends EVENT_SAVED and
\* the response.
SummarySaved(h) ==
  /\ handler[h].pc = "saveSummary"
  /\ summaries' = [summaries EXCEPT ![handler[h].existing.date] = handler[h].existing]
  /\ replies' = Append(replies, Success(h))
  /\ handler' = [handler EXCEPT ![h] = IdleHandler]
  /\ UNCHANGED eventLog
  /\ UNCHANGED <<gridVars, goalVars, calcVars, achVars, pageVars>>

\* A TRACK_EVENT arrives and calculateEventCarbon throws: the catch of
\* handleTrackingEvent responds, nothing was stored.
CarbonFails ==
  /\ Received < MaxEvents
  /\ replies' = Append(replies, Failure(Received + 1, NullV))
  /\ UNCHANGED <<summaries, eventLog, handler>>
  /\ UNCHANGED <<gridVars, goalVars, calcVars, achVars, pageVars>>

\* saveEvent rejects: no record is added.
EventSaveFails(h) ==
  /\ handler[h].pc = "saveEvent"
  /\ replies' = Append(replies, Failure(handler[h].msg, handler[h].record))
  /\ handler' = [handler EXCEPT ![h] = IdleHandler]
  /\ UNCHANGED <<summaries, eventLog>>
  /\ UNCHANGED <<gridVars, goalVars, calcVars, achVars, pageVars>>

\* getDailySummary rejects, after saveEvent has added the record.
SummaryReadFails(h) ==
  /\ handler[h].pc = "readSummary"
  /\ replies' = Append(replies, Failure(handler[h].msg, handler[h].record))
  /\ handler' = [handler EXCEPT ![h] = IdleHandler]
  /\ UNCHANGED <<summaries, eventLog>>
  /\ UNCHANGED <<gridVars, goalVars, calcVars, achVars, pageVars>>

\* saveDailySummary rejects: the summary stays as it was.
SummarySaveFails(h) ==
  /\ handler[h].pc = "saveSummary"
  /\ replies' = Append(replies, Failure(handler[h].msg, handler[h].record))
  /\ handler' = [handler EXCEPT ![h] = IdleHandler]
  /\ UNCHANGED <<summaries, eventLog>>
  /\ UNCHANGED <<gridVars, goalVars, calcVars, achVars, pageVars>>

\* A TRACK_EVENT that arrives when no other is being processed.
ProcessEventAlone(h) ==
  /\ \A g \in Handlers : handler[g].pc = "idle"
  /\ ProcessEvent(h)

(***************************************************************************)
(* Pure functions.  A call is made from the state where none has been made *)
(* and is recorded in calc with its input and result.                      *)
(***************************************************************************)

NoCalc == [op |-> "none"]
InitCalc == calc = NoCalc

\* Achievement storage (storage/achievement-storage.js).  The map
\* achievementsUnlocked gives each id the day of its unlockedAt, 0 for an id
\* without a record; days are numbered from 1.
Savers == 1..NumSavers
UnlockIds == {"first_step", "on_track"}
NoUnlocks == [id \in UnlockIds |-> 0]
IdleSaver == [pc |-> "idle", earnedIds |-> {}, newlyUnlocked |-> {},
              updated |-> NoUnlocks]
InitUnlocks ==
  /\ unlockStore = NoUnlocks
  /\ saver = [w \in Savers |-> IdleSaver]
  /\ today = 1
  /\ returned = <<>>

\* calculateProgress.  percentage = currentCarbon / goal.amount * 100 is kept
\* as the fraction num / den; the thresholds are compared on num and den.
calculateProgress(currentCarbon, goal) ==
  LET num == currentCarbon * 100
      den == goal.amount
      status == IF num < 80 * den THEN "great"
                ELSE IF num < 100 * den THEN "near"
                ELSE "over"
  IN [current |-> currentCarbon,
      goal |-> goal.amount,
      percentage |-> [num |-> IF num < 100 * den THEN num ELSE 100 * den,
                      den |-> den],
      remaining |-> goal.amount - currentCarbon,
      status |-> status]

\* GOAL_PRESETS
GoalPresets == {GOAL_ECO_WARRIOR, GOAL_AVERAGE, GOAL_MODERATE}
\* The weekly totals progress is asked about: multiples of seven grams.
WeekCarbons == {7 * k : k \in 0..MaxCarbonSteps}

\* calculateProgress(currentCarbon, goal) is called.
Progress ==
  /\ calc = NoCalc
  /\ \E currentCarbon \in WeekCarbons, amount \in GoalPresets :
       calc' = [op |-> "calculateProgress", currentCarbon |-> currentCarbon,
                amount |-> amount,
                result |-> calculateProgress(currentCarbon,
                                             [amount |-> amount, period |-> "week"])]
  /\ UNCHANGED <<gridVars, goalVars, summaryVars, achVars, pageVars>>

\* ACHIEVEMENTS: the ids, in registry order.
ACHIEVEMENTS ==
  <<"first_step", "on_track", "streak_starter", "hat_trick", "eco_warrior",
    "overachiever", "data_nerd", "carbon_conscious">>

BoolV(b) == [t |-> "boolean", v |-> IF b THEN 1 ELSE 0]
\* value ?? fallback
Coalesce(value, fallback) ==
  IF value.t \in {"absent", "undefined", "null"} THEN fallback ELSE value
\* Reading a property of null or undefined throws a TypeError.
Nullish(obj) == obj.kind \in {"null", "undefined"}
Outcome(b) == IF b THEN "true" ELSE "false"

\* The check of the achievement with this id: "true", "false" or "throw".
check(id, context) ==
  CASE id = "first_step" -> Outcome(context.goal.kind # "null")
    [] id = "on_track" ->
         IF Nullish(context.history) THEN "throw"
         ELSE Outcome(Coalesce(context.history.totalAchieved, NumV(0)).v >= 1)
    [] id = "streak_starter" ->
         IF Nullish(context.history) THEN "throw"
         ELSE Outcome(Coalesce(context.history.bestStreak, NumV(0)).v >= 2)
    [] id = "hat_trick" ->
         IF Nullish(context.history) THEN "throw"
         ELSE Outcome(Coalesce(context.history.bestStreak, NumV(0)).v >= 3)
    [] id = "eco_warrior" ->
         Outcome(~Nullish(context.goal) /\ context.goal.amount = 350)
    [] id = "overachiever" ->
         IF Nullish(context.history) THEN "throw"
         ELSE Outcome(Coalesce(context.history.halfGoalAchieved, BoolV(FALSE))
                        = BoolV(TRUE))
    [] id = "data_nerd" ->
         IF Nullish(context.totalImpact) THEN "throw"
         ELSE Outcome(Coalesce(context.totalImpact.totalCarbon, NumV(0)).v >= 500)
    [] id = "carbon_conscious" ->
         IF Nullish(context.totalImpact) THEN "throw"
         ELSE Outcome(Coalesce(context.totalImpact.totalCarbon, NumV(0)).v >= 5000)

\* A filter that gives up at the first check that throws.
getEarnedIdsUntilThrow(context) ==
  LET Thrown == {i \in DOMAIN ACHIEVEMENTS : check(ACHIEVEMENTS[i], context) = "throw"}
      first == IF Thrown = {} THEN Len(ACHIEVEMENTS) + 1
               ELSE CHOOSE i \in Thrown : \A j \in Thrown : i <= j
  IN SelectSeq(SubSeq(ACHIEVEMENTS, 1, first - 1),
               LAMBDA id : check(id, context) = "true")

\* getEarnedIds: filter with try/catch, then map to the ids.
getEarnedIds(context) ==
  SelectSeq(ACHIEVEMENTS, LAMBDA id : check(id, context) = "true")

\* The context snapshots getEarnedIds is called on.
ContextGoals ==
  {NullV} \cup {[kind |-> "object", amount |-> a, period |-> "week"] : a \in GoalPresets}
ContextHistories ==
  {NullV} \cup
  {[kind |-> "object", totalAchieved |-> a, bestStreak |-> b, halfGoalAchieved |-> h] :
     a \in {Absent, NumV(0), NumV(1)},
     b \in {Absent, NumV(1), NumV(2), NumV(3)},
     h \in {Absent, BoolV(FALSE), BoolV(TRUE)}}
ContextImpacts ==
  {NullV} \cup
  {[kind |-> "object", totalCarbon |-> c] :
     c \in {Absent, NumV(499), NumV(500), NumV(4999), NumV(5000)}}
AchievementContexts ==
  [goal : ContextGoals, history : ContextHistories, totalImpact : ContextImpacts]

\* getEarnedIds(context) is called.
Earned ==
  /\ calc = NoCalc
  /\ \E context \in AchievementContexts :
       calc' = [op |-> "getEarnedIds", context |-> context,
                result |-> getEarnedIds(context)]
  /\ UNCHANGED <<gridVars, goalVars, summaryVars, achVars, pageVars>>

\* RECOMMENDATIONS: the ids, in registry order.
RECOMMENDATIONS ==
  <<"lower_video_quality", "disable_autoplay", "use_ad_blocker",
    "reduce_shopping_browsing", "top_platform_dominance", "screen_breaks",
    "off_peak_usage", "set_goal", "above_average">>

\* The check of the recommendation with this id: "true", "false" or "throw".
\* total * 0.3, total * 0.5, BASELINE_GRID_INTENSITY * 1.1 and 75 * 1.2 are
\* compared after scaling both sides by ten.
checkRecommendation(id, ctx) ==
  CASE id = "lower_video_quality" ->
         IF Nullish(ctx.categoryTotals) THEN "throw"
         ELSE Outcome(/\ 10 * ctx.categoryTotals.media > 3 * ctx.total
                      /\ ctx.videoMB > 100)
    [] id = "disable_autoplay" ->
         IF Nullish(ctx.categoryTotals) THEN "throw"
         ELSE Outcome(10 * ctx.categoryTotals.media > 5 * ctx.total)
    [] id = "use_ad_blocker" -> Outcome(ctx.totalMB > 500)
    [] id = "reduce_shopping_browsing" ->
         IF ~(ctx.total > 0) THEN "false"
         ELSE IF Nullish(ctx.categoryTotals) THEN "throw"
         ELSE Outcome(10 * ctx.categoryTotals.shopping > 3 * ctx.total)
    [] id = "top_platform_dominance" ->
         Outcome(/\ ctx.topPlatform.kind # "null"
                 /\ ctx.total > 0
                 /\ 10 * ctx.topPlatform.grams > 5 * ctx.total)
    [] id = "screen_breaks" -> Outcome(ctx.totalTime > 120)
    [] id = "off_peak_usage" ->
         Outcome(10 * ctx.gridIntensity > 11 * BASELINE_GRID_INTENSITY)
    [] id = "set_goal" -> Outcome(ctx.goal.kind = "null")
    [] id = "above_average" -> Outcome(10 * ctx.total > 75 * 12)

\* What a build that throws leaves in place of its entry, and what
\* generateRecommendations settles with when a throw leaves it: the error
\* alone, no list of entries.
Thrown == [thrown |-> "TypeError"]
Rejected == <<Thrown>>

\* build(ctx) of the recommendation with this id: the entry, by its action.
\* gridIntensity.toFixed is a function on a number only.
build(id, ctx) ==
  CASE id = "lower_video_quality" -> [action |-> "Lower video quality"]
    [] id = "disable_autoplay" -> [action |-> "Disable autoplay"]
    [] id = "use_ad_blocker" -> [action |-> "Use an ad blocker"]
    [] id = "reduce_shopping_browsing" -> [action |-> "Reduce image-heavy browsing"]
    [] id = "top_platform_dominance" -> [action |-> "Limit time on " \o ctx.topPlatform.name]
    [] id = "screen_breaks" -> [action |-> "Take regular screen breaks"]
    [] id = "off_peak_usage" ->
         IF ctx.gridIntensityType = "number"
         THEN [action |-> "Shift heavy usage to off-peak hours"]
         ELSE Thrown
    [] id = "set_goal" -> [action |-> "Set a weekly carbon goal"]
    [] id = "above_average" -> [action |-> "Review your browsing habits"]

AllClear == [action |-> "Keep up the good work!"]

\* events.reduce((s, e) => s + (e.data?.[field] || 0), 0)
RECURSIVE SumData(_, _)
SumData(events, field) ==
  IF events = <<>> THEN 0
  ELSE SumData(SubSeq(events, 1, Len(events) - 1), field)
       + (IF Nullish(events[Len(events)].data) THEN 0
          ELSE events[Len(events)].data[field])

\* e.platform || 'unknown'
PlatformOf(e) == IF e.platform = "" THEN "unknown" ELSE e.platform

RECURSIVE SumCarbon(_, _)
SumCarbon(events, p) ==
  IF events = <<>> THEN 0
  ELSE SumCarbon(SubSeq(events, 1, Len(events) - 1), p)
       + (IF PlatformOf(events[Len(events)]) = p
          THEN events[Len(events)].carbonGrams ELSE 0)

\* The entry of platformTotals sorted first: the largest total, and of equal
\* totals the platform inserted first (the sort is stable).
TopPlatform(events) ==
  IF events = <<>> THEN NullV
  ELSE LET names == {PlatformOf(events[i]) : i \in DOMAIN events}
           First(p) == CHOOSE i \in DOMAIN events :
                         /\ PlatformOf(events[i]) = p
                         /\ \A j \in DOMAIN events : PlatformOf(events[j]) = p => i <= j
           top == CHOOSE p \in names :
                    \A q \in names :
                      \/ SumCarbon(events, p) > SumCarbon(events, q)
                      \/ /\ SumCarbon(events, p) = SumCarbon(events, q)
                         /\ First(p) <= First(q)
       IN [kind |-> "array", name |-> top, grams |-> SumCarbon(events, top)]

\* The context generateRecommendations derives: cacheRead is what
\* chrome.storage.local.get gave ("fails" when it rejected), goal what
\* getCurrentGoal resolved to.  A stored intensity that is a numeric string
\* is kept by its numeric value, which is what > compares, and its type.
RecommendationContext(events, categoryTotals, total, cacheRead, goal) ==
  [categoryTotals |-> categoryTotals,
   total |-> total,
   totalMB |-> SumData(events, "totalMB"),
   videoMB |-> SumData(events, "videoMB"),
   totalTime |-> SumData(events, "timeActive"),
   topPlatform |-> TopPlatform(events),
   gridIntensity |-> IF cacheRead.kind = "grid" /\ cacheRead.intensity # 0
                     THEN cacheRead.intensity ELSE BASELINE_GRID_INTENSITY,
   gridIntensityType |-> IF /\ cacheRead.kind = "grid"
                            /\ cacheRead.intensity # 0
                            /\ "type" \in DOMAIN cacheRead
                         THEN cacheRead.type ELSE "number",
   goal |-> goal]

\* The results without the all-clear pushed onto an empty list.
generateRecommendationsNoFallback(events, categoryTotals, total, cacheRead, goal) ==
  LET ctx == RecommendationContext(events, categoryTotals, total, cacheRead, goal)
      fired == SelectSeq(RECOMMENDATIONS,
                         LAMBDA id : checkRecommendation(id, ctx) = "true")
  IN [i \in DOMAIN fired |-> build(fired[i], ctx)]

generateRecommendations(events, categoryTotals, total, cacheRead, goal) ==
  LET ctx == RecommendationContext(events, categoryTotals, total, cacheRead, goal)
      fired == SelectSeq(RECOMMENDATIONS,
                         LAMBDA id : checkRecommendation(id, ctx) = "true")
      results == [i \in DOMAIN fired |-> build(fired[i], ctx)]
  IN IF \E i \in DOMAIN results : results[i] = Thrown THEN Rejected
     ELSE IF Len(results) = 0 THEN <<AllClear>> ELSE results

\* The inputs of generateRecommendations.
PeriodEvents ==
  {[platform |-> "youtube.com", carbonGrams |-> 60,
    data |-> [kind |-> "object", totalMB |-> 600, videoMB |-> 150, timeActive |-> 130]],
   [platform |-> "", carbonGrams |-> 20,
    data |-> [kind |-> "object", totalMB |-> 50, videoMB |-> 0, timeActive |-> 10]],
   [platform |-> "amazon.com", carbonGrams |-> 40, data |-> Undefined]}
EventLists ==
  {<<>>} \cup {<<e>> : e \in PeriodEvents}
         \cup {<<e, f>> : e \in PeriodEvents, f \in PeriodEvents}
CategoryTotals ==
  {NullV} \cup
  {[kind |-> "object", media |-> m, shopping |-> s, browsing |-> 0] :
     m \in {0, 20, 60}, s \in {0, 40}}
PeriodTotals == {0, 60, 120}
CacheReads ==
  {[kind |-> "fails"], Undefined,
   [kind |-> "grid", intensity |-> 400], [kind |-> "grid", intensity |-> 600]}

\* What chrome.storage.local can hold under gridIntensityCache: the entries
\* above and one whose intensity is the string "600".
StoredCacheReads ==
  CacheReads \cup {[kind |-> "grid", intensity |-> 600, type |-> "string"]}

\* generateRecommendations(events, categoryTotals, total) is called and
\* resolves.
Recommend ==
  /\ calc = NoCalc
  /\ \E events \in EventLists, categoryTotals \in CategoryTotals,
        total \in PeriodTotals, cacheRead \in CacheReads, goal \in ContextGoals :
       calc' = [op |-> "generateRecommendations",
                ctx |-> RecommendationContext(events, categoryTotals, total,
                                              cacheRead, goal),
                result |-> generateRecommendations(events, categoryTotals, total,
                                                   cacheRead, goal)]
  /\ UNCHANGED <<gridVars, goalVars, summaryVars, achVars, pageVars>>

\* generateRecommendations is called over any stored cache entry and
\* settles.
RecommendStored ==
  /\ calc = NoCalc
  /\ \E events \in EventLists, categoryTotals \in CategoryTotals,
        total \in PeriodTotals, cacheRead \in StoredCacheReads,
        goal \in ContextGoals :
       calc' = [op |-> "generateRecommendations",
                ctx |-> RecommendationContext(events, categoryTotals, total,
                                              cacheRead, goal),
                result |-> generateRecommendations(events, categoryTotals, total,
                                                   cacheRead, goal)]
  /\ UNCHANGED <<gridVars, goalVars, summaryVars, achVars, pageVars>>

\* saveNewlyUnlocked(earnedIds) is called: the read of the map is issued.
SaveStart(w) ==
  /\ saver[w].pc = "idle"
  /\ Len(returned) + Cardinality({v \in Savers : saver[v].pc # "idle"})
       < MaxUnlockCalls
  /\ \E earnedIds \in SUBSET UnlockIds :
       saver' = [saver EXCEPT ![w] = [IdleSaver EXCEPT !.pc = "read",
                                                       !.earnedIds = earnedIds]]
  /\ UNCHANGED <<unlockStore, today, returned>>
  /\ UNCHANGED <<gridVars, goalVars, summaryVars, calcVars, pageVars>>

\* getUnlockedAchievements resolves with the stored map; the ids without a
\* record get today's date, and the write of the whole map is issued unless
\* there is nothing new: the call then resolves with the empty list.
SaveRead(w) ==
  /\ saver[w].pc = "read"
  /\ LET existing == unlockStore
         unlockedAt == today
         newlyUnlocked == {id \in saver[w].earnedIds : existing[id] = 0}
         updated == [id \in UnlockIds |->
                       IF id \in newlyUnlocked THEN unlockedAt ELSE existing[id]]
     IN /\ saver' = [saver EXCEPT ![w] =
                       IF newlyUnlocked = {} THEN IdleSaver
                       ELSE [pc |-> "write", earnedIds |-> saver[w].earnedIds,
                             newlyUnlocked |-> newlyUnlocked,
                             updated |-> updated]]
        /\ returned' = IF newlyUnlocked = {} THEN Append(returned, {})
                       ELSE returned
  /\ UNCHANGED <<unlockStore, today>>
  /\ UNCHANGED <<gridVars, goalVars, summaryVars, calcVars, pageVars>>

\* chrome.storage.sync.set completes: the map is replaced by updated and the
\* call resolves with newlyUnlocked.
SaveWrite(w) ==
  /\ saver[w].pc = "write"
  /\ unlockStore' = saver[w].updated
  /\ returned' = Append(returned, saver[w].newlyUnlocked)
  /\ saver' = [saver EXCEPT ![w] = IdleSaver]
  /\ UNCHANGED today
  /\ UNCHANGED <<gridVars, goalVars, summaryVars, calcVars, pageVars>>

\* Midnight (UTC) passes.
UnlockNextDay ==
  /\ today < MaxUnlockDays
  /\ today' = today + 1
  /\ UNCHANGED <<unlockStore, saver, returned>>
  /\ UNCHANGED <<gridVars, goalVars, summaryVars, calcVars, pageVars>>

\* Numbers are IEEE-754 doubles.  A positive double is man * 2^exp with man
\* an odd integer of at most 53 bits, kept as its bits, lowest first; zero
\* has no bits.
MantissaBits == 53
Zero == [man |-> <<>>, exp |-> 0]

RECURSIVE TrimTop(_)
TrimTop(bits) ==
  IF bits = <<>> \/ bits[Len(bits)] = 1 THEN bits
  ELSE TrimTop(SubSeq(bits, 1, Len(bits) - 1))

RECURSIVE Normalise(_, _)
Normalise(bits, exp) ==
  IF bits = <<>> THEN Zero
  ELSE IF bits[1] = 1 THEN [man |-> bits, exp |-> exp]
  ELSE Normalise(Tail(bits), exp + 1)

ShiftLeft(bits, k) == [i \in 1..k |-> 0] \o bits

RECURSIVE BitAdd(_, _, _)
BitAdd(a, b, carry) ==
  IF a = <<>> /\ b = <<>> THEN (IF carry = 1 THEN <<1>> ELSE <<>>)
  ELSE LET x == IF a = <<>> THEN 0 ELSE a[1]
           y == IF b = <<>> THEN 0 ELSE b[1]
           s == x + y + carry
       IN <<s % 2>> \o BitAdd(IF a = <<>> THEN a ELSE Tail(a),
                              IF b = <<>> THEN b ELSE Tail(b), s \div 2)

\* Round an exact sum to 53 bits, to nearest, ties to even.
RoundNearestEven(bits, exp) ==
  IF Len(bits) <= MantissaBits THEN Normalise(bits, exp)
  ELSE LET k == Len(bits) - MantissaBits
           kept == SubSeq(bits, k + 1, Len(bits))
           guard == bits[k] = 1
           sticky == \E i \in 1..(k - 1) : bits[i] = 1
           up == guard /\ (sticky \/ kept[1] = 1)
       IN Normalise(IF up THEN BitAdd(kept, <<1>>, 0) ELSE kept, exp + k)

\* x + y on doubles.
DoubleAdd(x, y) ==
  IF x = Zero THEN y
  ELSE IF y = Zero THEN x
  ELSE LET exp == IF x.exp <= y.exp THEN x.exp ELSE y.exp
       IN RoundNearestEven(BitAdd(ShiftLeft(x.man, x.exp - exp),
                                  ShiftLeft(y.man, y.exp - exp), 0), exp)

\* The double whose mantissa has these hexadecimal digits, highest first.
RECURSIVE HexBits(_)
HexBits(digits) ==
  IF digits = <<>> THEN <<>>
  ELSE LET d == digits[Len(digits)]
       IN <<d % 2, (d \div 2) % 2, (d \div 4) % 2, (d \div 8) % 2>>
          \o HexBits(SubSeq(digits, 1, Len(digits) - 1))
Double(digits, exp) == Normalise(TrimTop(HexBits(digits)), exp)

\* 0.1, 0.2 and 0.3 as +(x).toFixed(2) gives them, and 125.
Tenth == Double(<<1, 9, 9, 9, 9, 9, 9, 9, 9, 9, 9, 9, 9, 10>>, 0 - 56)
TwoTenths == Double(<<1, 9, 9, 9, 9, 9, 9, 9, 9, 9, 9, 9, 9, 10>>, 0 - 55)
ThreeTenths == Double(<<1, 3, 3, 3, 3, 3, 3, 3, 3, 3, 3, 3, 3, 3>>, 0 - 54)
OneTwoFive == Double(<<7, 13>>, 0)

\* aggregateByCategory: the reduce, left to right, from
\* {media: 0, shopping: 0, browsing: 0}.
RECURSIVE aggregateByCategory(_)
aggregateByCategory(events) ==
  IF events = <<>>
  THEN [c \in {"media", "shopping", "browsing"} |-> Zero]
  ELSE LET totals == aggregateByCategory(SubSeq(events, 1, Len(events) - 1))
           event == events[Len(events)]
           category == IF event.type = "" THEN "browsing" ELSE event.type
           before == IF category \in DOMAIN totals THEN totals[category] ELSE Zero
       IN [c \in DOMAIN totals \cup {category} |->
             IF c = category THEN DoubleAdd(before, event.carbonGrams)
             ELSE totals[c]]

\* The events aggregated, and the lists of up to MaxAggregated of them.
AggregatedEvents ==
  {[type |-> "media", carbonGrams |-> Tenth],
   [type |-> "media", carbonGrams |-> TwoTenths],
   [type |-> "media", carbonGrams |-> ThreeTenths],
   [type |-> "shopping", carbonGrams |-> OneTwoFive],
   [type |-> "", carbonGrams |-> TwoTenths],
   [type |-> "video", carbonGrams |-> Zero]}
AggregatedLists ==
  UNION {[1..n -> AggregatedEvents] : n \in 0..MaxAggregated}
Shuffles(n) ==
  {p \in [1..n -> 1..n] : \A i, j \in 1..n : p[i] = p[j] => i = j}

\* aggregateByCategory is called on a list and on a permutation of it.
Aggregate ==
  /\ calc = NoCalc
  /\ \E events \in AggregatedLists :
       \E p \in Shuffles(Len(events)) :
         LET shuffled == [i \in 1..Len(events) |-> events[p[i]]]
         IN calc' = [op |-> "aggregateByCategory", events |-> events,
                     shuffled |-> shuffled,
                     result |-> aggregateByCategory(events),
                     shuffledResult |-> aggregateByCategory(shuffled)]
  /\ UNCHANGED <<gridVars, goalVars, summaryVars, achVars, pageVars>>

\* Numbers that are not finite.
PosInfinity == [t |-> "Infinity", v |-> 0]
NegInfinity == [t |-> "-Infinity", v |-> 0]

\* +(n / d).toFixed(3), in thousandths: the quotient rounded to three
\* decimals, halves away from zero.
ToFixed3(n, d) ==
  IF n >= 0 THEN (2000 * n + d) \div (2 * d)
  ELSE 0 - ((2000 * (0 - n) + d) \div (2 * d))

\* getGridMultiplier: null, or the multiplier in thousandths.
getGridMultiplier(intensity) ==
  IF intensity.t # "number" \/ BASELINE_GRID_INTENSITY <= 0
  THEN NullNum
  ELSE NumV(ToFixed3(intensity.v, BASELINE_GRID_INTENSITY))

\* The intensities getGridMultiplier is asked about, in gCO2 per kWh.
Intensities ==
  {NumV(v) : v \in (0 - MaxIntensity)..MaxIntensity}
  \cup {NotANumber, PosInfinity, NegInfinity, NullNum, NoNum, StrNum}

\* getGridMultiplier(intensity) is called.
Multiplier ==
  /\ calc = NoCalc
  /\ \E intensity \in Intensities :
       calc' = [op |-> "getGridMultiplier", intensity |-> intensity,
                result |-> getGridMultiplier(intensity)]
  /\ UNCHANGED <<gridVars, goalVars, summaryVars, achVars, pageVars>>

\* WEBSITE_CATEGORIES (config/devices.js), as Object.entries lists it.
WEBSITE_CATEGORIES ==
  <<[category |-> "media",
     domains |-> {"youtube.com", "youtu.be", "netflix.com", "twitch.tv",
                  "vimeo.com", "hulu.com", "disneyplus.com", "hbomax.com",
                  "primevideo.com", "crunchyroll.com", "reddit.com",
                  "instagram.com", "facebook.com", "twitter.com", "x.com",
                  "tiktok.com", "linkedin.com", "pinterest.com",
                  "snapchat.com", "tumblr.com"}],
    [category |-> "shopping",
     domains |-> {"amazon.com", "ebay.com", "etsy.com", "walmart.com",
                  "target.com", "bestbuy.com", "aliexpress.com", "alibaba.com",
                  "shopify.com", "wayfair.com", "nordstrom.com", "macys.com",
                  "ikea.com", "homedepot.com", "lowes.com"}]>>

\* categories, the table local to the content script's categorizeWebsite.
categories ==
  <<[category |-> "media", domains |-> WEBSITE_CATEGORIES[1].domains],
    [category |-> "shopping",
     domains |-> {"amazon.com", "ebay.com", "etsy.com", "walmart.com",
                  "target.com", "bestbuy.com", "aliexpress.com",
                  "shopify.com", "wayfair.com"}]>>

\* domain.includes(d)
Includes(domain, d) ==
  \E i \in 1..(Len(domain) - Len(d) + 1) : SubSeq(domain, i, i + Len(d) - 1) = d

\* domains.some((d) => domain.includes(d))
SomeIncluded(domains, domain) == \E d \in domains : Includes(domain, d)

\* The loop that returns the last entry that matches instead of the first.
LastCategory(entries, domain) ==
  LET hits == {i \in DOMAIN entries : SomeIncluded(entries[i].domains, domain)}
  IN IF hits = {} THEN "browsing"
     ELSE entries[CHOOSE i \in hits : \A j \in hits : j <= i].category

\* The loop over the entries: the category of the first entry one of whose
\* domains the domain includes, or browsing.
FirstCategory(entries, domain) ==
  LET hits == {i \in DOMAIN entries : SomeIncluded(entries[i].domains, domain)}
  IN IF hits = {} THEN "browsing"
     ELSE entries[CHOOSE i \in hits : \A j \in hits : i <= j].category

categorizeWebsite(domain) == FirstCategory(WEBSITE_CATEGORIES, domain)
categorizeWebsiteInTracker(domain) == FirstCategory(categories, domain)

\* The domains categorised: every listed domain and some unlisted ones,
\* alone, under a subdomain or a longer name, and in front of another domain.
BaseDomains ==
  WEBSITE_CATEGORIES[1].domains \cup WEBSITE_CATEGORIES[2].domains
  \cup {"", "example.org", "wikipedia.org", "x.co", "amazon.co.uk", "localhost"}
DomainPrefixes == {"", "m.", "shop.", "the", "wi"}
DomainSuffixes == {"", ".evil.org", ".amazon.com", ".ikea.com"}
DomainStrings ==
  {p \o b \o s : p \in DomainPrefixes, b \in BaseDomains, s \in DomainSuffixes}

\* categorizeWebsite(domain) is called, in the configuration module and in
\* the content script.
Categorize ==
  /\ calc = NoCalc
  /\ \E domain \in DomainStrings :
       calc' = [op |-> "categorizeWebsite", domain |-> domain,
                result |-> categorizeWebsite(domain),
                inTracker |-> categorizeWebsiteInTracker(domain)]
  /\ UNCHANGED <<gridVars, goalVars, summaryVars, achVars, pageVars>>

\* The universal tracker (content script).  Sizes are in MB; a load is named
\* by its place in loaded.  state.counted is history: the loads whose bytes
\* state.totalBytes holds.  The per-type byte counters and resourceCounts are
\* added to, sent and reset together with totalBytes.
Senders == 1..NumSenders
ResourceNames == {"app.js", "hero.png"}
TransferSizes == {0, 1}
ActiveMinutes == {0, 1}
EmptyState == [totalBytes |-> 0, processedResources |-> {}, counted |-> {}]
IdleSender == [pc |-> "idle", totalMB |-> 0, ids |-> {}]
InitPage ==
  /\ state = EmptyState
  /\ loaded = <<>>
  /\ sending = [s \in Senders |-> IdleSender]
  /\ acked = <<>>

\* processResource(entry): an entry whose name was processed is skipped, one
\* without a transfer size is remembered only, any other is added.
processResource(st, entry, k) ==
  IF entry.name \in st.processedResources THEN st
  ELSE IF entry.size = 0
  THEN [st EXCEPT !.processedResources = @ \cup {entry.name}]
  ELSE [st EXCEPT !.processedResources = @ \cup {entry.name},
                  !.totalBytes = @ + entry.size,
                  !.counted = @ \cup {k}]

\* The PerformanceObserver (or the initial scan) hands over an entry.
ProcessResource ==
  /\ Len(loaded) < MaxLoads
  /\ \E name \in ResourceNames, size \in TransferSizes :
       LET entry == [name |-> name, size |-> size]
           after == processResource(state, entry, Len(loaded) + 1)
       IN /\ state' = after
          /\ loaded' = Append(loaded, [name |-> name, size |-> size,
                                       recorded |-> after.totalBytes # state.totalBytes])
  /\ UNCHANGED <<sending, acked>>
  /\ UNCHANGED <<gridVars, goalVars, summaryVars, calcVars, achVars>>

\* sendSummary is called (periodic timer, pagehide, beforeunload) with
\* activity to report: the TRACK_EVENT carrying the current totals is sent.
SendSummary(s) ==
  /\ sending[s].pc = "idle"
  /\ Len(acked) + Cardinality({r \in Senders : sending[r].pc # "idle"})
       < MaxSummaries
  /\ \E timeActive \in ActiveMinutes :
       ~(timeActive = 0 /\ state.totalBytes = 0)
  /\ sending' = [sending EXCEPT ![s] =
                   [pc |-> "await", totalMB |-> state.totalBytes,
                    ids |-> state.counted]]
  /\ UNCHANGED <<state, loaded, acked>>
  /\ UNCHANGED <<gridVars, goalVars, summaryVars, calcVars, achVars>>

\* The response has ok true: the state is reset.
SummaryAcknowledged(s) ==
  /\ sending[s].pc = "await"
  /\ acked' = Append(acked, [totalMB |-> sending[s].totalMB,
                             ids |-> sending[s].ids])
  /\ state' = EmptyState
  /\ sending' = [sending EXCEPT ![s] = IdleSender]
  /\ UNCHANGED loaded
  /\ UNCHANGED <<gridVars, goalVars, summaryVars, calcVars, achVars>>

\* The response has ok false, or none came: the state is kept.
SummaryRefused(s) ==
  /\ sending[s].pc = "await"
  /\ sending' = [sending EXCEPT ![s] = IdleSender]
  /\ UNCHANGED <<state, loaded, acked>>
  /\ UNCHANGED <<gridVars, goalVars, summaryVars, calcVars, achVars>>

(***************************************************************************)
(* Specifications.                                                         *)
(***************************************************************************)

ProviderStep ==
  \/ \E c \in Calls : StartCall(c)
  \/ \E c \in Calls : CacheRead(c)
  \/ \E c \in Calls : TokenRead(c)
  \/ \E o \in Calls : LocRead(o)
  \/ \E o \in Calls : EnsureOffscreen(o)
  \/ GeoRespond
  \/ \E o \in Calls : GeoTimeout(o)
  \/ \E o \in Calls : LocSave(o)
  \/ \E o \in Calls : FetchRespond(o)
  \/ \E o \in Calls : CacheWrite(o)
  \/ Tick

DashStep ==
  \/ DashRemoveKey
  \/ DashRmToken
  \/ DashRmCache
  \/ DashSaveKey
  \/ DashTestDone
  \/ DashSetToken
  \/ DashSetCache

StoreFault ==
  \/ \E c \in Calls : CacheReadFails(c)
  \/ \E c \in Calls : TokenReadFails(c)
  \/ \E o \in Calls : RefreshStoreFails(o)

GoalStep ==
  \/ CloseStart
  \/ CloseRead
  \/ CloseWrite
  \/ CheckPeriod
  \/ NextDay

SummaryStep ==
  \/ \E h \in Handlers : ProcessEvent(h)
  \/ \E h \in Handlers : EventSaved(h)
  \/ \E h \in Handlers : SummaryRead(h)
  \/ \E h \in Handlers : SummarySaved(h)

SummaryFault ==
  \/ CarbonFails
  \/ \E h \in Handlers : EventSaveFails(h)
  \/ \E h \in Handlers : SummaryReadFails(h)
  \/ \E h \in Handlers : SummarySaveFails(h)

\* The provider and the location resolver over a reliable store.
\* Everything but the provider, at rest.
OthersAtRest == InitCalc /\ InitUnlocks /\ InitPage
InitSpecGrid == InitGrid /\ TrackerAtRest /\ InitSummary /\ OthersAtRest
SpecGrid == InitSpecGrid /\ [][ProviderStep]_vars

\* The same, with the dashboard saving and removing API keys.
SpecGridDash == InitSpecGrid /\ [][ProviderStep \/ DashStep]_vars

\* The same, over a store whose calls may reject.
SpecGridFaulty == InitSpecGrid /\ [][ProviderStep \/ StoreFault]_vars

\* The provider where every browser call, timer and storage call that is
\* pending eventually completes; the offscreen document need not answer.
ProviderFairness ==
  /\ \A o \in Calls : WF_vars(LocRead(o))
  /\ \A o \in Calls : WF_vars(EnsureOffscreen(o))
  /\ \A o \in Calls : WF_vars(GeoTimeout(o))
  /\ \A o \in Calls : WF_vars(LocSave(o))

SpecGridLive == InitSpecGrid /\ [][ProviderStep]_vars /\ ProviderFairness

\* The weekly tracker over a reliable store.
InitSpecGoal == ProviderAtRest /\ InitGoal /\ InitSummary /\ OthersAtRest
SpecGoal == InitSpecGoal /\ [][GoalStep]_vars

\* calculateProgress on every weekly total and preset.
InitSpecProgress ==
  ProviderAtRest /\ TrackerAtRest /\ InitSummary /\ OthersAtRest
SpecProgress == InitSpecProgress /\ [][Progress]_vars

\* The event processor, two events at a time.
InitSpecSummary ==
  ProviderAtRest /\ TrackerAtRest /\ InitSummary /\ OthersAtRest
SpecSummary == InitSpecSummary /\ [][SummaryStep]_vars

\* getEarnedIds on every context snapshot.
InitSpecEarned ==
  ProviderAtRest /\ TrackerAtRest /\ InitSummary /\ OthersAtRest
SpecEarned == InitSpecEarned /\ [][Earned]_vars

\* generateRecommendations on every period's events, totals, cache and goal.
InitSpecRecommend ==
  ProviderAtRest /\ TrackerAtRest /\ InitSummary /\ OthersAtRest
SpecRecommend == InitSpecRecommend /\ [][Recommend]_vars

\* Calls of saveNewlyUnlocked, overlapping at their awaits.
UnlockStep ==
  \/ \E w \in Savers : SaveStart(w)
  \/ \E w \in Savers : SaveRead(w)
  \/ \E w \in Savers : SaveWrite(w)
  \/ UnlockNextDay
InitSpecUnlocks ==
  ProviderAtRest /\ TrackerAtRest /\ InitSummary /\ OthersAtRest
SpecUnlocks == InitSpecUnlocks /\ [][UnlockStep]_vars

\* generateRecommendations on every context and every stored cache entry.
InitSpecRecommendStored ==
  ProviderAtRest /\ TrackerAtRest /\ InitSummary /\ OthersAtRest
SpecRecommendStored == InitSpecRecommendStored /\ [][RecommendStored]_vars

\* The universal tracker of one page.
PageStep ==
  \/ ProcessResource
  \/ \E s \in Senders : SendSummary(s)
  \/ \E s \in Senders : SummaryAcknowledged(s)
  \/ \E s \in Senders : SummaryRefused(s)
InitSpecPage ==
  ProviderAtRest /\ TrackerAtRest /\ InitSummary /\ OthersAtRest
SpecPage == InitSpecPage /\ [][PageStep]_vars

\* aggregateByCategory on every list of events and every permutation of it.
InitSpecAggregate ==
  ProviderAtRest /\ TrackerAtRest /\ InitSummary /\ OthersAtRest
SpecAggregate == InitSpecAggregate /\ [][Aggregate]_vars

\* getGridMultiplier on every intensity.
InitSpecMultiplier ==
  ProviderAtRest /\ TrackerAtRest /\ InitSummary /\ OthersAtRest
SpecMultiplier == InitSpecMultiplier /\ [][Multiplier]_vars

\* categorizeWebsite on every domain string.
InitSpecCategorize ==
  ProviderAtRest /\ TrackerAtRest /\ InitSummary /\ OthersAtRest
SpecCategorize == InitSpecCategorize /\ [][Categorize]_vars

\* The event processor while the dashboard saves or removes an API key,
\* which rewrites the grid cache.
SpecSummaryDash == InitSpecSummary /\ [][SummaryStep \/ DashStep]_vars

\* The event processor over a store whose operations may reject.
SpecSummaryFaulty == InitSpecSummary /\ [][SummaryStep \/ SummaryFault]_vars

\* The same, every storage operation a handler awaits completing, with a
\* result or with an error.
Settles(h) ==
  \/ EventSaved(h) \/ EventSaveFails(h)
  \/ SummaryRead(h) \/ SummaryReadFails(h)
  \/ SummarySaved(h) \/ SummarySaveFails(h)
SpecSummaryLive ==
  SpecSummaryFaulty /\ \A h \in Handlers : WF_vars(Settles(h))

\* The event processor, one event at a time.
SerialStep ==
  \/ \E h \in Handlers : ProcessEventAlone(h)
  \/ \E h \in Handlers : EventSaved(h)
  \/ \E h \in Handlers : SummaryRead(h)
  \/ \E h \in Handlers : SummarySaved(h)
SpecSummarySerial == InitSpecSummary /\ [][SerialStep]_vars

(***************************************************************************)
(* Properties.                                                             *)
(***************************************************************************)

\* C1: at most one outbound carbon-intensity fetch is in flight at any time,
\* however the calls of getRealtimeGridIntensity overlap.
C1_AtMostOneFetchInFlight ==
  Cardinality({o \in Calls : refresh[o].pc = "fetch"}) <= 1

\* C2: a call that reads a cache entry younger than ten minutes returns that
\* entry and starts no refresh (no location lookup, no fetch) and joins none,
\* whatever the token and the in-flight handle are.
C2_FreshCacheIsReturned ==
  \A c \in Calls :
    ( /\ call[c].cached.kind = "grid"
      /\ call[c].checkedAt - call[c].cached.updatedAt < 10 * 60 * 1000 )
    => /\ call[c].pc = "done"
       /\ call[c].result = call[c].cached
       /\ call[c].awaiting = 0
       /\ refresh[c].pc = "none"

\* A call returned the fresh entry while another call's refresh was in flight.
C2_FreshHitDuringRefresh ==
  \E c \in Calls :
    /\ call[c].pc = "done" /\ call[c].path = "fresh"
    /\ call[c].result.kind = "grid"
    /\ gridFetchInFlight # 0

\* C3 as stated: a call that found the cache not fresh, made while no token
\* was configured at any moment, starts no fetch and returns the stale entry
\* it read, or null.
C3_NoTokenReturnsStale ==
  \A c \in Calls :
    (call[c].pc = "done" /\ call[c].path # "fresh" /\ ~call[c].tokSeen)
    => /\ refresh[c].pc = "none"
       /\ call[c].result =
            IF call[c].cached.kind = "grid" THEN call[c].cached ELSE NullV

\* C3 amended: a call that found the cache not fresh and no refresh in
\* flight, and then read no usable token, starts no fetch and returns the
\* stale entry it read, or null.
C3_NoTokenNoRefreshReturnsStale ==
  \A c \in Calls :
    ( /\ call[c].tokRaw # Pending
      /\ ~(call[c].tokRaw.kind = "string" /\ call[c].tokRaw.s \notin {"", "   "}) )
    => /\ call[c].pc = "done"
       /\ refresh[c].pc = "none"
       /\ call[c].awaiting = 0
       /\ call[c].result =
            IF call[c].cached.kind = "grid" THEN call[c].cached ELSE NullV

\* A call without a token returned the stale entry it had read.
C3_StaleReturnedWithoutToken ==
  \E c \in Calls :
    /\ call[c].tokRaw = Undefined
    /\ call[c].pc = "done"
    /\ call[c].cached.kind = "grid"
    /\ call[c].result = call[c].cached

\* C4 as stated: when the fetch of a refresh fails, the cache is left as it
\* is and every call awaiting the refresh returns the entry the cache holds
\* at that moment, or null if it holds none.
C4_FailureReturnsLastEntry ==
  [][\A o \in Calls :
       (refresh[o].pc = "fetch" /\ refresh'[o].pc = "rejected")
       => /\ gridCache' = gridCache
          /\ \A c \in Calls :
               (call[c].pc = "await" /\ call[c].awaiting = o)
               => /\ call'[c].pc = "done"
                  /\ call'[c].result =
                       IF gridCache.kind = "grid" THEN gridCache ELSE NullV]_vars

\* C4 amended: when the fetch of a refresh fails, the cache is left as it is
\* and every call awaiting the refresh returns the entry it read when it
\* started, or null if it read none.
C4_FailureReturnsEntryRead ==
  [][\A o \in Calls :
       (refresh[o].pc = "fetch" /\ refresh'[o].pc = "rejected")
       => /\ gridCache' = gridCache
          /\ \A c \in Calls :
               (call[c].pc = "await" /\ call[c].awaiting = o)
               => /\ call'[c].pc = "done"
                  /\ call'[c].result =
                       IF call[c].cached.kind = "grid" THEN call[c].cached
                       ELSE NullV]_vars

\* A refresh failed and a call that awaited it returned its stale entry.
C4_StaleReturnedAfterFailure ==
  \E c \in Calls :
    /\ call[c].pc = "done"
    /\ call[c].awaiting # 0
    /\ refresh[call[c].awaiting].pc = "rejected"
    /\ call[c].cached.kind = "grid"
    /\ call[c].result = call[c].cached

\* C5: no call of getRealtimeGridIntensity ends by throwing, even when the
\* store rejects the read of the cache or of the token.
C5_NeverThrows ==
  \A c \in Calls : call[c].pc # "threw"

\* The sum of the numbers an object holds.
RECURSIVE SumValues(_, _)
SumValues(obj, keys) ==
  IF keys = {} THEN 0
  ELSE LET k == CHOOSE x \in keys : TRUE
       IN (IF obj[k].t = "number" THEN obj[k].v ELSE 0)
            + SumValues(obj, keys \ {k})

\* Every value an object holds is a number.
AllNumbers(obj) == \A k \in DOMAIN obj : obj[k].t \in {"absent", "number"}

\* C6: every stored Daily Summary has totalCarbon = the sum of its
\* byCategory values = the sum of its byPlatform values.
C6_TotalsAgree ==
  \A d \in DateKeys :
    summaries[d].kind = "summary"
    => /\ AllNumbers(summaries[d].byCategory)
       /\ AllNumbers(summaries[d].byPlatform)
       /\ summaries[d].totalCarbon
            = SumValues(summaries[d].byCategory, CategoryKeys)
       /\ summaries[d].totalCarbon
            = SumValues(summaries[d].byPlatform, PlatformKeys)

\* The length of the run of met periods a sequence of closes ends with.
RECURSIVE TrailingRun(_)
TrailingRun(s) ==
  IF s = <<>> THEN 0
  ELSE IF s[Len(s)] THEN 1 + TrailingRun(SubSeq(s, 1, Len(s) - 1))
  ELSE 0

\* The length of the longest run of met periods in a sequence of closes.
RECURSIVE LongestRun(_)
LongestRun(s) ==
  IF s = <<>> THEN 0
  ELSE LET rest == LongestRun(SubSeq(s, 1, Len(s) - 1))
           last == TrailingRun(s)
       IN IF last > rest THEN last ELSE rest

LocalWeek(instant, offset) == (instant + offset) \div (7 * HoursPerDay)

\* C8: isNewPeriod is true while no close has recorded lastPeriodStart, and
\* false when asked in the local calendar week of the last close, whatever
\* the timezone offset.
C8_SameWeekIsNotNew ==
  periodCheck.done
  => /\ periodCheck.after = 0 => periodCheck.result
     /\ ( /\ periodCheck.after # 0
          /\ LocalWeek(periodCheck.after, tz) = LocalWeek(periodCheck.at, tz) )
        => ~periodCheck.result

C11_ProgressStatus ==
  calc.op = "calculateProgress"
  => LET c == calc.currentCarbon
         a == calc.amount
     IN /\ calc.result.status =
             IF 100 * c < 80 * a THEN "great"
             ELSE IF 100 * c <= 100 * a THEN "near"
             ELSE "over"
        /\ calc.result.percentage.den = a
        /\ calc.result.percentage.num = IF c > a THEN 100 * a ELSE 100 * c


\* C12: getEarnedIds returns, in registry order, exactly the ids whose check
\* returns true on the context; a check that throws counts as false and the
\* checks after it are still evaluated.
C12_EarnedIds ==
  calc.op = "getEarnedIds"
  => LET r == calc.result
         Position(id) == CHOOSE i \in DOMAIN ACHIEVEMENTS : ACHIEVEMENTS[i] = id
     IN /\ \A i \in DOMAIN ACHIEVEMENTS :
             (\E k \in DOMAIN r : r[k] = ACHIEVEMENTS[i])
             <=> check(ACHIEVEMENTS[i], calc.context) = "true"
        /\ \A k \in DOMAIN r : \E i \in DOMAIN ACHIEVEMENTS : r[k] = ACHIEVEMENTS[i]
        /\ \A k, l \in DOMAIN r : k < l => Position(r[k]) < Position(r[l])

\* A check threw (history is null) and a later achievement is still earned.
C12_EarnedAfterThrow ==
  /\ calc.op = "getEarnedIds"
  /\ calc.context.history = NullV
  /\ calc.context.totalImpact # NullV
  /\ calc.result = <<"first_step", "eco_warrior", "data_nerd", "carbon_conscious">>


\* C14: generateRecommendations returns at least one entry for any context,
\* the all-zero one included: the entries built by the rules whose check
\* fires, in registry order, and the all-clear entry if and only if no rule
\* fired.
C14_AtLeastOneRecommendation ==
  calc.op = "generateRecommendations"
  => LET r == calc.result
         Fires(i) == checkRecommendation(RECOMMENDATIONS[i], calc.ctx) = "true"
         Fired == {i \in DOMAIN RECOMMENDATIONS : Fires(i)}
         Before(i) == Cardinality({j \in Fired : j < i})
     IN /\ Len(r) >= 1
        /\ (\E k \in DOMAIN r : r[k] = AllClear) <=> Fired = {}
        /\ Fired # {} =>
             /\ Len(r) = Cardinality(Fired)
             /\ \A i \in Fired :
                  r[Before(i) + 1] = build(RECOMMENDATIONS[i], calc.ctx)

\* The all-zero context with a goal set and a clean grid: only the all-clear.
C14_AllZeroAllClear ==
  /\ calc.op = "generateRecommendations"
  /\ calc.ctx.total = 0
  /\ calc.ctx.totalMB = 0
  /\ calc.ctx.topPlatform = NullV
  /\ calc.ctx.goal # NullV
  /\ calc.result = <<AllClear>>


\* C13: once an id has an unlock record, no later saveNewlyUnlocked changes
\* the record's unlockedAt or removes the record, also when calls overlap at
\* their storage read and write.
C13_UnlockWrittenOnce ==
  [][\A id \in UnlockIds :
       unlockStore[id] # 0 => unlockStore'[id] = unlockStore[id]]_vars


\* C15: aggregateByCategory gives identical per-category totals on every
\* permutation of the same event list, and its result always has the keys
\* media, shopping and browsing.
C15_OrderIndependent ==
  calc.op = "aggregateByCategory"
  => /\ calc.result = calc.shuffledResult
     /\ {"media", "shopping", "browsing"} \subseteq DOMAIN calc.result


\* C16: getGridMultiplier(BASELINE_GRID_INTENSITY) is exactly 1, and
\* getGridMultiplier is null for every negative and every non-finite
\* intensity.
C16_MultiplierNullWhenInvalid ==
  calc.op = "getGridMultiplier"
  => /\ calc.intensity = NumV(BASELINE_GRID_INTENSITY) => calc.result = NumV(1000)
     /\ ( \/ calc.intensity.t \in {"NaN", "Infinity", "-Infinity"}
          \/ (calc.intensity.t = "number" /\ calc.intensity.v < 0) )
        => calc.result = NullNum


\* C17: categorizeWebsite(domain) returns exactly one of media, shopping and
\* browsing: media if the domain contains a media substring, otherwise
\* shopping if it contains a shopping substring, otherwise browsing.
C17_FirstMatchWins ==
  calc.op = "categorizeWebsite"
  => LET Expected(table) ==
           IF \E d \in table[1].domains : Includes(calc.domain, d) THEN "media"
           ELSE IF \E d \in table[2].domains : Includes(calc.domain, d) THEN "shopping"
           ELSE "browsing"
     IN /\ calc.result \in {"media", "shopping", "browsing"}
        /\ calc.inTracker \in {"media", "shopping", "browsing"}
        /\ calc.result = Expected(WEBSITE_CATEGORIES)
        /\ calc.inTracker = Expected(categories)

\* A domain that contains a media substring (x.com, in netflix.com) and a
\* shopping substring is media.
C17_MediaBeforeShopping ==
  /\ calc.op = "categorizeWebsite"
  /\ calc.domain = "shop.netflix.com.amazon.com"
  /\ calc.result = "media"
  /\ calc.inTracker = "media"


\* C18: Event Records are append-only: once a record is saved, no operation
\* (summary update, later events, a rewrite of the grid cache) modifies or
\* deletes it; its carbonGrams and recorded grid context stay as written.
C18_EventsAppendOnly ==
  [][\A i \in DOMAIN eventLog :
       i \in DOMAIN eventLog' /\ eventLog'[i] = eventLog[i]]_vars

\* A record saved before the grid cache was written still carries no grid
\* intensity after a later record was saved with the cache's intensity and
\* both summaries were updated.
C18_RecordOutlivesCacheChange ==
  /\ Len(eventLog) >= 2
  /\ eventLog[1].gridIntensity = NullNum
  /\ eventLog[2].gridIntensity # NullNum
  /\ gridCache.kind = "grid"
  /\ \A h \in Handlers : handler[h].pc = "idle"


\* The carbon of the saved Event Records whose timestamp falls on a day.
RECURSIVE SavedCarbon(_, _)
SavedCarbon(log, day) ==
  IF log = <<>> THEN 0
  ELSE SavedCarbon(SubSeq(log, 1, Len(log) - 1), day)
       + (IF log[Len(log)].timestamp \div HoursPerDay = day
          THEN log[Len(log)].carbonGrams ELSE 0)

AllIdle == \A h \in Handlers : handler[h].pc = "idle"

\* C19: with TRACK_EVENTs of one day processed concurrently an update can be
\* lost: a day's totalCarbon never exceeds the carbon of the day's saved
\* records, and once two records of a day are saved and their handlers are
\* done it is the carbon of both or of only one of them.
C19_SummaryMayLoseUpdate ==
  /\ \A d \in DateKeys :
       summaries[d].kind = "summary"
       => summaries[d].totalCarbon <= SavedCarbon(eventLog, d)
  /\ ( /\ AllIdle
       /\ Len(eventLog) = 2
       /\ getDateKey(eventLog[1].timestamp) = getDateKey(eventLog[2].timestamp) )
     => /\ summaries[getDateKey(eventLog[1].timestamp)].kind = "summary"
        /\ summaries[getDateKey(eventLog[1].timestamp)].totalCarbon
             \in {eventLog[1].carbonGrams + eventLog[2].carbonGrams,
                  eventLog[1].carbonGrams, eventLog[2].carbonGrams}

\* Both records of a day are in the event store, both handlers are done, and
\* the day's totalCarbon holds only one of them.
C19_UpdateLost ==
  /\ AllIdle
  /\ Len(eventLog) = 2
  /\ eventLog[1].timestamp = 30 /\ eventLog[2].timestamp = 30
  /\ eventLog[1].carbonGrams = 125 /\ eventLog[2].carbonGrams = 125
  /\ summaries[getDateKey(30)].kind = "summary"
  /\ summaries[getDateKey(30)].totalCarbon = 125

C21_UpdatedAtIncreases ==
  [][\A o \in Calls :
       ( /\ refresh[o].pc = "cacheWrite"
         /\ refresh'[o].pc = "fulfilled"
         /\ gridCache.kind = "grid" )
       => gridCache'.updatedAt > gridCache.updatedAt]_vars


C23_NotifiedAtMostOnce ==
  /\ [](\A id \in UnlockIds :
          Cardinality({i \in DOMAIN returned : id \in returned[i]}) <= 1)
  /\ [][\A w \in Savers :
          ( /\ saver[w].pc = "read"
            /\ saver'[w].pc # "read"
            /\ \A id \in saver[w].earnedIds : unlockStore[id] # 0 )
          => /\ saver'[w].pc = "idle"
             /\ returned' = Append(returned, {})
             /\ unlockStore' = unlockStore]_vars


C25_SavedBeforeAnnounced ==
  [][Len(replies') > Len(replies)
     => LET sent == replies'[Len(replies')]
            d == getDateKey(sent.record.timestamp)
        IN /\ sent.eventSaved
              => /\ \E i \in DOMAIN eventLog : eventLog[i] = sent.record
                 /\ summaries'[d].kind = "summary"
                 /\ summaries'[d].totalCarbon >= sent.record.carbonGrams
                 /\ summaries'[d].byCategory[sent.record.type] # Absent
                 /\ summaries'[d].byPlatform[sent.record.platform] # Absent
           /\ ~sent.ok => ~sent.eventSaved
           /\ \A i \in DOMAIN replies :
                replies[i].msg = sent.msg => ~replies[i].eventSaved]_vars

\* One event failed at its summary and answered ok false, another of the
\* same day was saved, summed and announced.
C25_FailedThenAnnounced ==
  /\ Len(replies) = 2
  /\ ~replies[1].ok /\ ~replies[1].eventSaved
  /\ replies[1].record # NullV /\ replies[1].record.carbonGrams = 125
  /\ replies[2].ok /\ replies[2].eventSaved
  /\ replies[2].record.timestamp = replies[1].record.timestamp
  /\ Len(eventLog) = 2


\* C26: a TRACK_EVENT answered with ok false has left the persistent store as
\* it was: every record of the event store belongs to an event answered with
\* ok true or to one still being processed, and the step that sends ok false
\* changes no daily summary.
C26_FailedEventLeavesNoTrace ==
  /\ [](Len(eventLog)
         = Cardinality({i \in DOMAIN replies : replies[i].ok})
           + Cardinality({h \in Handlers :
                            handler[h].pc \in {"readSummary", "saveSummary"}}))
  /\ [][(Len(replies') > Len(replies) /\ ~replies'[Len(replies')].ok)
        => summaries' = summaries]_vars


\* C30: every TRACK_EVENT gets exactly one response: never two, ok true only
\* with its record in the event store and the summary of its day stored, ok
\* false otherwise; and, every storage operation completing, there comes a
\* time from which every TRACK_EVENT received has its response.
C30_ExactlyOneResponse ==
  /\ [](\A i, j \in DOMAIN replies : replies[i].msg = replies[j].msg => i = j)
  /\ [][Len(replies') > Len(replies)
        => LET sent == replies'[Len(replies')]
           IN /\ Len(replies') = Len(replies) + 1
              /\ sent.ok
                   => /\ \E i \in DOMAIN eventLog' : eventLog'[i] = sent.record
                      /\ summaries'[getDateKey(sent.record.timestamp)].kind
                           = "summary"]_vars
  /\ <>[](\A m \in 1..Received : \E i \in DOMAIN replies : replies[i].msg = m)

\* Three events, all answered: one refused before anything was stored, one
\* refused after its record was saved, one saved and summed.
C30_AllThreeAnswered ==
  /\ Len(replies) = 3
  /\ \A h \in Handlers : handler[h].pc = "idle"
  /\ {replies[i].msg : i \in DOMAIN replies} = 1..3
  /\ \E i \in DOMAIN replies : replies[i].ok
  /\ \E i \in DOMAIN replies : ~replies[i].ok /\ replies[i].record = NullV
  /\ \E i \in DOMAIN replies : ~replies[i].ok /\ replies[i].record # NullV
  /\ Len(eventLog) = 2


\* C28: the handle gridFetchInFlight is cleared when a refresh settles, with
\* a result or with an error, and never names a refresh that has settled; so
\* a call that finds the cache stale while no refresh is running goes on to
\* read the token, and with a token configured starts a new refresh of its
\* own.
C28_FailedRefreshDoesNotBlock ==
  /\ [](gridFetchInFlight # 0
        => refresh[gridFetchInFlight].pc \notin {"none", "fulfilled", "rejected"})
  /\ [][/\ \A o \in Calls :
             ( /\ refresh[o].pc \notin {"fulfilled", "rejected"}
               /\ refresh'[o].pc \in {"fulfilled", "rejected"} )
             => gridFetchInFlight' = 0
        /\ \A c \in Calls :
             ( /\ call[c].pc = "readCache"
               /\ call'[c].pc \notin {"readCache", "threw"}
               /\ ~CacheIsFresh(getCachedGridIntensity(gridCache), now)
               /\ \A o \in Calls :
                    refresh[o].pc \in {"none", "fulfilled", "rejected"} )
             => call'[c].pc = "readToken"
        /\ \A c \in Calls :
             ( /\ call[c].pc = "readToken"
               /\ call'[c].pc \notin {"readToken", "threw"}
               /\ Truthy(getElectricityMapsToken(tokenStore)) )
             => /\ refresh'[c].pc = "locRead"
                /\ gridFetchInFlight' = c
                /\ call'[c].awaiting = c]_vars

\* The first call's refresh failed ten minutes ago; the second call, made
\* after it, has a refresh of its own in flight.
C28_RefreshAfterFailedRefresh ==
  /\ refresh[1].pc = "rejected"
  /\ refresh[1].locAt = StartMs
  /\ call[1].pc = "done"
  /\ call[2].checkedAt = StartMs + TickMs
  /\ call[2].path = "own"
  /\ refresh[2].pc = "fetch"
  /\ gridFetchInFlight = 2


\* C27: every load whose bytes processResource added to the state is in
\* exactly one summary answered with ok true, or still counted in the state
\* for a later one: never in two, never in none, also when resources load or
\* a second sendSummary starts while a sendSummary awaits its response.
C27_EveryByteReportedOnce ==
  \A k \in DOMAIN loaded :
    loaded[k].recorded
    => LET n == Cardinality({i \in DOMAIN acked : k \in acked[i].ids})
       IN /\ n <= 1
          /\ n = 1 \/ k \in state.counted

====
